---- MODULE Spec2Model ----
(***************************************************************************)
(* A model of the dns-suite wire-format codec: the 512-byte packet buffer  *)
(* (dns_parser/src/buffer.rs), the header, question, record and packet     *)
(* codecs (dns_core/src/*.rs).  Rust Result values are modelled as records *)
(* [st, b, v]: st is "Ok", an error tag, or "Panic" (an out-of-range index *)
(* of the byte array aborts the call), b is the buffer object after the    *)
(* call and v the returned value.  Strings are their UTF-8 byte sequences. *)
(***************************************************************************)
EXTENDS Integers, Sequences, FiniteSets, TLC

VARIABLES buffer, position, src, last

vars == <<buffer, position, src, last>>

(***************************************************************************)
(* Program constants.                                                      *)
(***************************************************************************)
BufSize == 512

max_jumps == 5

MaxLabel == 63

(***************************************************************************)
(* Bounds of the model.                                                    *)
(***************************************************************************)
MaxChain == 6

MaxList == 2

(***************************************************************************)
(* Fixed-width integer helpers (u8 / u16 / u32 arithmetic of the source).  *)
(***************************************************************************)
RECURSIVE BitAnd(_, _)
BitAnd(a, b) ==
    IF a = 0 \/ b = 0 THEN 0
    ELSE (IF a % 2 = 1 /\ b % 2 = 1 THEN 1 ELSE 0) + 2 * BitAnd(a \div 2, b \div 2)

RECURSIVE BitOr(_, _)
BitOr(a, b) ==
    IF a = 0 THEN b
    ELSE IF b = 0 THEN a
    ELSE (IF a % 2 = 1 \/ b % 2 = 1 THEN 1 ELSE 0) + 2 * BitOr(a \div 2, b \div 2)

RECURSIVE BitXor(_, _)
BitXor(a, b) ==
    IF a = 0 THEN b
    ELSE IF b = 0 THEN a
    ELSE (IF (a % 2) # (b % 2) THEN 1 ELSE 0) + 2 * BitXor(a \div 2, b \div 2)

RECURSIVE Pow2(_)
Pow2(n) == IF n = 0 THEN 1 ELSE 2 * Pow2(n - 1)

\* x << n truncated to w bits, x >> n
Shl(x, n, w) == (x * Pow2(n)) % Pow2(w)

Shr(x, n) == x \div Pow2(n)

BoolBit(f) == IF f THEN 1 ELSE 0

\* A u32 is held as its two 16-bit halves <<high, low>>: the model checker's
\* integers end at 2^31 - 1.  U32Byte(x, n) is ((x >> n) & 0xFF) for n in
\* {24, 16, 8, 0}; U32Half(x, n) is ((x >> n) & 0xFFFF) for n in {16, 0}.
U32Byte(x, n) ==
    CASE n = 24 -> Shr(x[1], 8) % 256
      [] n = 16 -> BitAnd(x[1], 255)
      [] n = 8 -> Shr(x[2], 8) % 256
      [] n = 0 -> BitAnd(x[2], 255)

U32Half(x, n) == IF n = 16 THEN BitAnd(x[1], 65535) ELSE BitAnd(x[2], 65535)

(***************************************************************************)
(* Result values.                                                          *)
(***************************************************************************)
Ok(b, v) == [st |-> "Ok", b |-> b, v |-> v]

Err(b, e) == [st |-> e, b |-> b, v |-> <<>>]

Panic(b) == [st |-> "Panic", b |-> b, v |-> <<>>]

\* the element of a one-element set
The(S) == CHOOSE x \in S : TRUE

\* The ? operator: F continues with a successful result, anything else is
\* returned.  The result r is evaluated once.
Then(r, F(_)) == The({IF x.st = "Ok" THEN F(x) ELSE x : x \in {r}})

\* The ? operator inside read_qname: what was pushed to the caller's string
\* before the error stays in it.
Try(r, out, F(_)) ==
    The({IF x.st = "Ok" THEN F(x) ELSE [x EXCEPT !.v = out] : x \in {r}})

(***************************************************************************)
(* BytePacketBuffer                                                        *)
(***************************************************************************)
new == [buffer |-> [i \in 0 .. (BufSize - 1) |-> 0], position |-> 0]

set(b, pos, val) ==
    IF pos >= BufSize THEN Panic(b)
    ELSE Ok([b EXCEPT !.buffer[pos] = val], <<>>)

set_u16(b, pos, val) ==
    Then(set(b, pos, Shr(val, 8) % 256), LAMBDA w1 :
    set(w1.b, pos + 1, BitAnd(val, 255)))

\* write with the bound test off by one: lets the cursor pass 512
write_past_end(b, val) ==
    IF b.position > BufSize THEN Err(b, "BufferOverflow")
    ELSE Ok([buffer |-> [b.buffer EXCEPT ![b.position] = val],
             position |-> b.position + 1], <<>>)

pos(b) == b.position

write(b, val) ==
    IF b.position >= BufSize THEN Err(b, "BufferOverflow")
    ELSE Ok([buffer |-> [b.buffer EXCEPT ![b.position] = val],
             position |-> b.position + 1], <<>>)

write_u8(b, val) == write(b, val)

write_u16_le(b, val) ==
    Then(write(b, BitAnd(val, 255)), LAMBDA w1 :
    write(w1.b, Shr(val, 8) % 256))

write_u16(b, val) ==
    Then(write(b, Shr(val, 8) % 256), LAMBDA w1 :
    write(w1.b, BitAnd(val, 255)))

write_u32(b, val) ==
    Then(write(b, U32Byte(val, 24)), LAMBDA w1 :
    Then(write(w1.b, U32Byte(val, 16)), LAMBDA w2 :
    Then(write(w2.b, U32Byte(val, 8)), LAMBDA w3 :
    write(w3.b, U32Byte(val, 0)))))

read(b) ==
    IF b.position >= BufSize THEN Err(b, "BufferOverflow")
    ELSE Ok([b EXCEPT !.position = b.position + 1], b.buffer[b.position])

get(b, p) ==
    IF b.position >= BufSize THEN Err(b, "BufferOverflow")
    ELSE IF p >= BufSize THEN Panic(b)
    ELSE Ok(b, b.buffer[p])

step(b, steps) == [b EXCEPT !.position = b.position + steps]

seek(b, p) == [b EXCEPT !.position = p]

\* &self.buffer[start..len] with len = start + end
get_range(b, start, end) ==
    LET len == start + end
    IN  IF len >= BufSize THEN Err(b, "BufferOverflow")
        ELSE Ok(b, [i \in 1 .. (len - start) |-> b.buffer[start + i - 1]])

read_u16(b) ==
    Then(read(b), LAMBDA r1 :
    Then(read(r1.b), LAMBDA r2 :
    Ok(r2.b, BitOr(Shl(r1.v, 8, 16), r2.v))))

read_u32(b) ==
    Then(read(b), LAMBDA r1 :
    Then(read(r1.b), LAMBDA r2 :
    Then(read(r2.b), LAMBDA r3 :
    Then(read(r3.b), LAMBDA r4 :
    Ok(r4.b, <<BitOr(Shl(r1.v, 8, 16), r2.v), BitOr(Shl(r3.v, 8, 16), r4.v)>>)))))

(***************************************************************************)
(* Strings: str::split, String::from_utf8_lossy, str::to_lowercase         *)
(***************************************************************************)
Dot == <<46>>

Replacement == <<239, 191, 189>>

\* domain.split("."): the labels between the dots, empty ones included
RECURSIVE split(_)
split(s) ==
    IF \A i \in 1 .. Len(s) : s[i] # 46 THEN <<s>>
    ELSE LET k == CHOOSE i \in 1 .. Len(s) :
                      s[i] = 46 /\ \A j \in 1 .. (i - 1) : s[j] # 46
         IN  <<SubSeq(s, 1, k - 1)>> \o split(SubSeq(s, k + 1, Len(s)))

InRange(s, i, lo, hi) == i <= Len(s) /\ s[i] >= lo /\ s[i] <= hi

\* the length of the valid UTF-8 sequence at s[i], or minus the length of
\* the maximal invalid prefix there
Utf8Chunk(s, i) ==
    LET b0 == s[i]
        lo2 == IF b0 = 224 THEN 160 ELSE IF b0 = 240 THEN 144 ELSE 128
        hi2 == IF b0 = 237 THEN 159 ELSE IF b0 = 244 THEN 143 ELSE 191
    IN  IF b0 < 128 THEN 1
        ELSE IF b0 >= 194 /\ b0 <= 223
             THEN IF InRange(s, i + 1, 128, 191) THEN 2 ELSE -1
        ELSE IF b0 >= 224 /\ b0 <= 239
             THEN IF ~InRange(s, i + 1, lo2, hi2) THEN -1
                  ELSE IF ~InRange(s, i + 2, 128, 191) THEN -2 ELSE 3
        ELSE IF b0 >= 240 /\ b0 <= 244
             THEN IF ~InRange(s, i + 1, lo2, hi2) THEN -1
                  ELSE IF ~InRange(s, i + 2, 128, 191) THEN -2
                  ELSE IF ~InRange(s, i + 3, 128, 191) THEN -3 ELSE 4
        ELSE -1

\* the end of the run of ASCII bytes that starts at s[i]
AsciiRunEnd(s, i) ==
    IF \A j \in i .. Len(s) : s[j] < 128 THEN Len(s)
    ELSE (CHOOSE j \in i .. Len(s) : s[j] >= 128 /\ \A k \in i .. (j - 1) : s[k] < 128) - 1

\* valid sequences are copied (a run of ASCII bytes whole), each maximal
\* invalid prefix becomes U+FFFD
RECURSIVE from_utf8_lossy_at(_, _)
from_utf8_lossy_at(s, i) ==
    IF i > Len(s) THEN <<>>
    ELSE LET n == Utf8Chunk(s, i)
             e == AsciiRunEnd(s, i)
         IN  IF n = 1 THEN SubSeq(s, i, e) \o from_utf8_lossy_at(s, e + 1)
             ELSE IF n > 0 THEN SubSeq(s, i, i + n - 1) \o from_utf8_lossy_at(s, i + n)
             ELSE Replacement \o from_utf8_lossy_at(s, i - n)

from_utf8_lossy(bytes) == from_utf8_lossy_at(bytes, 1)

\* ASCII and Latin-1 capitals; the inputs of the model hold no other cased
\* characters
to_lowercase(s) ==
    [i \in 1 .. Len(s) |->
        IF s[i] >= 65 /\ s[i] <= 90 THEN s[i] + 32
        ELSE IF i > 1 /\ s[i - 1] = 195 /\ s[i] >= 128 /\ s[i] <= 158 /\ s[i] # 151
             THEN s[i] + 32
        ELSE s[i]]

(***************************************************************************)
(* Name codec                                                              *)
(***************************************************************************)
\* for byte in bytes { buffer.write_u8(*byte)? }, for the bytes lo .. hi: in
\* order, stopping at the first error; halved to keep the evaluation shallow
RECURSIVE write_range(_, _, _, _)
write_range(b, bytes, lo, hi) ==
    IF lo > hi THEN Ok(b, <<>>)
    ELSE IF lo = hi THEN write_u8(b, bytes[lo])
    ELSE LET mid == (lo + hi) \div 2
         IN  Then(write_range(b, bytes, lo, mid), LAMBDA w1 :
             write_range(w1.b, bytes, mid + 1, hi))

write_bytes(b, bytes, i) == write_range(b, bytes, i, Len(bytes))

\* write_labels with the label bound off by one: a 64-byte label passes
RECURSIVE write_labels_long_ok(_, _, _)
write_labels_long_ok(b, labels, i) ==
    IF i > Len(labels) THEN Ok(b, <<>>)
    ELSE LET len == Len(labels[i])
         IN  IF len > MaxLabel + 1 THEN Err(b, "LabelTooLong")
             ELSE Then(write_u8(b, len % 256), LAMBDA w1 :
                  Then(write_bytes(w1.b, labels[i], 1), LAMBDA w2 :
                  write_labels_long_ok(w2.b, labels, i + 1)))

RECURSIVE write_labels(_, _, _)
write_labels(b, labels, i) ==
    IF i > Len(labels) THEN Ok(b, <<>>)
    ELSE LET len == Len(labels[i])
         IN  IF len > MaxLabel THEN Err(b, "LabelTooLong")
             ELSE Then(write_u8(b, len % 256), LAMBDA w1 :
                  Then(write_bytes(w1.b, labels[i], 1), LAMBDA w2 :
                  write_labels(w2.b, labels, i + 1)))

write_qname(b, domain) ==
    Then(write_labels(b, split(domain), 1), LAMBDA w1 :
    write_u8(w1.b, 0))

\* the loop of read_qname moving the cursor at every pointer it takes
RECURSIVE read_qname_loop_reseek(_, _, _, _, _, _)
read_qname_loop_reseek(b, p, jumped, jumps_performed, delimiter, out_str) ==
    IF jumps_performed > max_jumps THEN [Err(b, "NameJumpLimit") EXCEPT !.v = out_str]
    ELSE Try(get(b, p), out_str, LAMBDA g :
         LET length_byte == g.v
             b1 == seek(b, p + 2)
         IN  IF BitAnd(length_byte, 192) = 192
             THEN Try(get(b1, p + 1), out_str, LAMBDA g2 :
                  read_qname_loop_reseek(b1,
                                  BitOr(Shl(BitXor(length_byte, 192), 8, 16), g2.v),
                                  TRUE, jumps_performed + 1, delimiter, out_str))
             ELSE IF length_byte = 0
                  THEN Ok(IF ~jumped THEN seek(b, p + 1) ELSE b, out_str)
                  ELSE Try(get_range(b, p + 1, length_byte), out_str \o delimiter,
                       LAMBDA s :
                       read_qname_loop_reseek(b, p + 1 + length_byte, jumped,
                                       jumps_performed, Dot,
                                       out_str \o delimiter
                                           \o to_lowercase(from_utf8_lossy(s.v)))))

RECURSIVE read_qname_loop(_, _, _, _, _, _)
read_qname_loop(b, p, jumped, jumps_performed, delimiter, out_str) ==
    IF jumps_performed > max_jumps THEN [Err(b, "NameJumpLimit") EXCEPT !.v = out_str]
    ELSE Try(get(b, p), out_str, LAMBDA g :
         LET length_byte == g.v
             b1 == IF ~jumped THEN seek(b, p + 2) ELSE b
         IN  IF BitAnd(length_byte, 192) = 192
             THEN Try(get(b1, p + 1), out_str, LAMBDA g2 :
                  read_qname_loop(b1, BitOr(Shl(BitXor(length_byte, 192), 8, 16), g2.v),
                                  TRUE, jumps_performed + 1, delimiter, out_str))
             ELSE IF length_byte = 0
                  THEN Ok(IF ~jumped THEN seek(b, p + 1) ELSE b, out_str)
                  ELSE Try(get_range(b, p + 1, length_byte), out_str \o delimiter,
                       LAMBDA s :
                       read_qname_loop(b, p + 1 + length_byte, jumped,
                                       jumps_performed, Dot,
                                       out_str \o delimiter
                                           \o to_lowercase(from_utf8_lossy(s.v)))))

read_qname(b, out_str) == read_qname_loop(b, pos(b), FALSE, 0, <<>>, out_str)

(***************************************************************************)
(* State.  buffer and position are the two fields of the BytePacketBuffer  *)
(* in use; src records what was put into it since it was created (the      *)
(* value encoded, or the datagram received); last records the last call    *)
(* and its result.                                                         *)
(***************************************************************************)
Self == [buffer |-> buffer, position |-> position]

NoCall == [op |-> "new", st |-> "Ok"]

Init ==
    /\ buffer = new.buffer
    /\ position = new.position
    /\ src = [kind |-> "none"]
    /\ last = NoCall

Running == last.st # "Panic"

\* BytePacketBuffer::new()
New ==
    /\ Running
    /\ buffer' = new.buffer
    /\ position' = new.position
    /\ src' = [kind |-> "none"]
    /\ last' = NoCall

\* buffer.seek(p)
Seek(p) ==
    /\ Running
    /\ buffer' = seek(Self, p).buffer
    /\ position' = seek(Self, p).position
    /\ last' = [op |-> "seek", st |-> "Ok"]
    /\ UNCHANGED src

(***************************************************************************)
(* Received datagrams: a caller creates a buffer and lets recv_from fill   *)
(* its byte array from index 0.  The datagrams enumerated here are a chain *)
(* of k compression pointers (the pointer at 2i targets 2i+2), an ending   *)
(* at N = 2k, and optionally a later pointer or stray bytes.               *)
(***************************************************************************)
Ptr(t) == <<192 + (t \div 256), t % 256>>

RECURSIVE PtrChain(_, _)
PtrChain(i, k) == IF i >= k THEN <<>> ELSE Ptr(2 * i + 2) \o PtrChain(i + 1, k)

Endings == {"root", "name", "two", "lptr", "loop0", "self", "far", "p511", "big"}

Ending(e, N) ==
    CASE e = "root"  -> <<0>>
      [] e = "name"  -> <<1, 65, 0>>
      [] e = "two"   -> <<1, 65, 2, 98, 67, 0>>
      [] e = "lptr"  -> <<1, 65>> \o Ptr(N + 4) \o <<1, 98, 0>>
      [] e = "loop0" -> Ptr(0)
      [] e = "self"  -> Ptr(N)
      [] e = "far"   -> Ptr(BufSize)
      [] e = "p511"  -> Ptr(BufSize - 1)
      [] e = "big"   -> <<64>>

Tails == {"none", "mid", "end", "self510", "c0at511"}

\* past the longest pointer chain and its ending
MidPos == 2 * MaxChain + 28

\* the last two bytes of the buffer
EndPos == BufSize - 2

Zeros(n) == [i \in 1 .. n |-> 0]

PadTo(s, n) == s \o Zeros(n - Len(s))

Datagram(k, e, t) ==
    LET N == 2 * k
        head == PtrChain(0, k) \o Ending(e, N)
    IN  CASE t = "none"    -> head
          [] t = "mid"     -> PadTo(head, MidPos) \o Ptr(N)
          [] t = "end"     -> PadTo(head, EndPos) \o Ptr(N)
          [] t = "self510" -> PadTo(head, EndPos) \o Ptr(EndPos)
          [] t = "c0at511" -> PadTo(head, EndPos) \o <<0, 192>>

\* let mut b = BytePacketBuffer::new(); socket.recv_from(&mut b.buffer)
recv_from(bytes) ==
    [buffer |-> [i \in 0 .. (BufSize - 1) |->
                    IF i < Len(bytes) THEN bytes[i + 1] ELSE 0],
     position |-> 0]

Fresh == src.kind = "none" /\ last.op = "new"

RecvName(k, e, t) ==
    /\ Fresh
    /\ buffer' = recv_from(Datagram(k, e, t)).buffer
    /\ position' = recv_from(Datagram(k, e, t)).position
    /\ src' = [kind |-> "datagram", k |-> k, e |-> e, t |-> t]
    /\ last' = [op |-> "recv_from", st |-> "Ok"]

\* buffer.read_qname(&mut out) with a fresh String
ReadQname ==
    /\ last.op \in {"new", "seek", "recv_from"}
    /\ LET r == read_qname(Self, <<>>)
       IN  /\ buffer' = r.b.buffer
           /\ position' = r.b.position
           /\ last' = [op |-> "read_qname", st |-> r.st, v |-> r.v, pos0 |-> position]
    /\ UNCHANGED src

SeekSet == {2 * i : i \in 0 .. MaxChain} \cup {MidPos, EndPos, BufSize - 1, BufSize}

NextQname ==
    \/ New
    \/ \E p \in SeekSet : Seek(p)
    \/ Fresh /\ \E k \in 0 .. MaxChain, e \in Endings, t \in Tails : RecvName(k, e, t)
    \/ ReadQname

SpecQname == Init /\ [][NextQname]_vars

(***************************************************************************)
(* What a name decoder that stays inside the packet does from offset p:    *)
(* "zero" (a terminating zero byte is reached), "escape" (a pointer target *)
(* or a label lies outside bytes 0..511) or "limit" (a sixth pointer is    *)
(* met).  The claims about read_qname are stated against it.               *)
(***************************************************************************)
RECURSIVE WalkEnd(_, _, _)
WalkEnd(buf, p, fuel) ==
    IF p >= BufSize THEN "escape"
    ELSE IF buf[p] >= 192
         THEN IF p + 1 >= BufSize THEN "escape"
              ELSE IF fuel = 0 THEN "limit"
              ELSE WalkEnd(buf, (buf[p] - 192) * 256 + buf[p + 1], fuel - 1)
    ELSE IF buf[p] = 0 THEN "zero"
    ELSE IF p + 1 + buf[p] > BufSize THEN "escape"
    ELSE WalkEnd(buf, p + 1 + buf[p], fuel)

\* C1: read_qname never indexes the byte array outside 0..511 (no panic),
\* and a name whose pointer target or label leaves the packet is rejected
\* with BufferOverflow.
C1_QnameStaysInPacket ==
    last.op = "read_qname" =>
        /\ last.st # "Panic"
        /\ WalkEnd(buffer, last.pos0, max_jumps) = "escape" => last.st = "BufferOverflow"

\* C9: read_qname fails with NameJumpLimit exactly when the name needs more
\* than 5 pointers (every pointer cycle does); 5 or fewer are not rejected
\* by the limit.
C9_JumpLimit ==
    last.op = "read_qname" =>
        /\ WalkEnd(buffer, last.pos0, max_jumps) = "limit" => last.st = "NameJumpLimit"
        /\ WalkEnd(buffer, last.pos0, max_jumps) # "limit" => last.st # "NameJumpLimit"

\* the datagram holds an uncompressed name at N and a later pointer to it
NameAndPointer ==
    /\ src.kind = "datagram"
    /\ src.e \in {"root", "name", "two"}
    /\ src.t \in {"mid", "end"}

PointerPos == IF src.t = "mid" THEN MidPos ELSE EndPos

\* C10: a name at offset N and a later pointer to N decode to the same
\* string, and the cursor ends 2 bytes past the pointer.
C10_CompressionTolerance ==
    (NameAndPointer /\ last.op = "read_qname" /\ last.pos0 = PointerPos) =>
        LET direct == read_qname(seek(Self, 2 * src.k), <<>>)
        IN  /\ direct.st = "Ok"
            /\ last.st = "Ok"
            /\ last.v = direct.v
            /\ position = PointerPos + 2

(***************************************************************************)
(* ResultCode and DnsHeader                                                *)
(***************************************************************************)
ResultCodes == <<"NOERROR", "FORMERR", "SERVFAIL", "NXDOMAIN", "NOTIMP", "REFUSED">>

\* rescode as u8: the discriminant of the enum
ResultCode_as_u8(c) == CHOOSE n \in 0 .. 5 : ResultCodes[n + 1] = c

ResultCode_from_num_no_refused(num) ==
    CASE num = 1 -> "FORMERR"
      [] num = 2 -> "SERVFAIL"
      [] num = 3 -> "NXDOMAIN"
      [] num = 4 -> "NOTIMP"
      [] OTHER   -> "NOERROR"

\* from_num reading an out-of-set number as a server failure
ResultCode_from_num_servfail(num) ==
    CASE num = 0 -> "NOERROR"
      [] num = 1 -> "FORMERR"
      [] num = 2 -> "SERVFAIL"
      [] num = 3 -> "NXDOMAIN"
      [] num = 4 -> "NOTIMP"
      [] num = 5 -> "REFUSED"
      [] OTHER   -> "SERVFAIL"

ResultCode_from_num(num) ==
    CASE num = 1 -> "FORMERR"
      [] num = 2 -> "SERVFAIL"
      [] num = 3 -> "NXDOMAIN"
      [] num = 4 -> "NOTIMP"
      [] num = 5 -> "REFUSED"
      [] OTHER   -> "NOERROR"

DnsHeader_new ==
    [id |-> 0,
     recursion_desired |-> FALSE, truncated_message |-> FALSE,
     authoritative_answer |-> FALSE, opcode |-> 0, response |-> FALSE,
     rescode |-> "NOERROR", checking_disabled |-> FALSE, authed_data |-> FALSE,
     z |-> FALSE, recursion_available |-> FALSE,
     questions |-> 0, answers |-> 0, authoritative_entries |-> 0,
     resource_entries |-> 0]

Bit(x, n) == BitAnd(x, Shl(1, n, 8)) > 0

DnsHeader_read(self, b) ==
    Then(read_u16(b), LAMBDA r1 :
    Then(read(r1.b), LAMBDA ra :
    Then(read(ra.b), LAMBDA rb :
    Then(read_u16(rb.b), LAMBDA q :
    Then(read_u16(q.b), LAMBDA an :
    Then(read_u16(an.b), LAMBDA au :
    Then(read_u16(au.b), LAMBDA re :
    LET a == ra.v
        fb == rb.v
    IN  Ok(re.b,
               [self EXCEPT
                   !.id = r1.v,
                   !.recursion_desired = Bit(a, 0),
                   !.truncated_message = Bit(a, 1),
                   !.authoritative_answer = Bit(a, 2),
                   !.opcode = BitAnd(Shr(a, 3), 15),
                   !.response = Bit(a, 7),
                   !.rescode = ResultCode_from_num(BitAnd(fb, 15)),
                   !.checking_disabled = Bit(fb, 4),
                   !.authed_data = Bit(fb, 5),
                   !.z = Bit(fb, 6),
                   !.recursion_available = Bit(fb, 7),
                   !.questions = q.v,
                   !.answers = an.v,
                   !.authoritative_entries = au.v,
                   !.resource_entries = re.v]))))))))

FlagByteA(self) ==
    BitOr(BitOr(BitOr(BitOr(BoolBit(self.recursion_desired),
                            Shl(BoolBit(self.truncated_message), 1, 8)),
                      Shl(BoolBit(self.authoritative_answer), 2, 8)),
                Shl(self.opcode, 3, 8)),
          Shl(BoolBit(self.response), 7, 8))

\* flag byte B with z and ad in each other's place
FlagByteB_z_at_5(self) ==
    BitOr(BitOr(BitOr(BitOr(ResultCode_as_u8(self.rescode),
                            Shl(BoolBit(self.recursion_available), 7, 8)),
                      Shl(BoolBit(self.z), 5, 8)),
                Shl(BoolBit(self.authed_data), 6, 8)),
          Shl(BoolBit(self.checking_disabled), 4, 8))

FlagByteB(self) ==
    BitOr(BitOr(BitOr(BitOr(ResultCode_as_u8(self.rescode),
                            Shl(BoolBit(self.recursion_available), 7, 8)),
                      Shl(BoolBit(self.z), 6, 8)),
                Shl(BoolBit(self.authed_data), 5, 8)),
          Shl(BoolBit(self.checking_disabled), 4, 8))

DnsHeader_write(self, b) ==
    Then(write_u16(b, self.id), LAMBDA w1 :
    Then(write_u8(w1.b, FlagByteA(self)), LAMBDA w2 :
    Then(write_u8(w2.b, FlagByteB(self)), LAMBDA w3 :
    Then(write_u16(w3.b, self.questions), LAMBDA w4 :
    Then(write_u16(w4.b, self.answers), LAMBDA w5 :
    Then(write_u16(w5.b, self.authoritative_entries), LAMBDA w6 :
    write_u16(w6.b, self.resource_entries)))))))

(***************************************************************************)
(* Headers encoded and decoded.                                            *)
(***************************************************************************)
FlagNames ==
    <<"recursion_desired", "truncated_message", "authoritative_answer", "response",
      "checking_disabled", "authed_data", "z", "recursion_available">>

\* flag settings: none, all, and each flag alone
FlagChoices == {"none", "all"} \cup {FlagNames[i] : i \in 1 .. Len(FlagNames)}

FlagOn(choice, name) == choice = "all" \/ choice = name

Opcodes == (0 .. 15) \cup {16, 31, 255}

\* id and the four section counts
IdCounts == {<<43981, <<3, 2, 1, 4>>>>, <<255, <<65535, 256, 0, 1>>>>}

MkHeader(id, fl, op, rc, cn) ==
    [id |-> id,
     recursion_desired |-> FlagOn(fl, "recursion_desired"),
     truncated_message |-> FlagOn(fl, "truncated_message"),
     authoritative_answer |-> FlagOn(fl, "authoritative_answer"),
     opcode |-> op,
     response |-> FlagOn(fl, "response"),
     rescode |-> rc,
     checking_disabled |-> FlagOn(fl, "checking_disabled"),
     authed_data |-> FlagOn(fl, "authed_data"),
     z |-> FlagOn(fl, "z"),
     recursion_available |-> FlagOn(fl, "recursion_available"),
     questions |-> cn[1], answers |-> cn[2], authoritative_entries |-> cn[3],
     resource_entries |-> cn[4]]

\* header.write(&mut buffer) on a buffer just created
HeaderWrite(h) ==
    /\ Fresh
    /\ LET r == DnsHeader_write(h, Self)
       IN  /\ buffer' = r.b.buffer
           /\ position' = r.b.position
           /\ src' = [kind |-> "header", val |-> h, st |-> r.st,
                      start |-> position, end |-> r.b.position]
           /\ last' = [op |-> "DnsHeader_write", st |-> r.st]

\* the 12 header bytes of scenario S1 as the text gives them, as the writer
\* emits them, and with result codes outside 0..5
HeaderDatagrams ==
    {<<171, 205, 135, 246, 0, 3, 0, 2, 0, 1, 0, 4>>,
     <<171, 205, 151, 242, 0, 3, 0, 2, 0, 1, 0, 4>>,
     <<0, 1, 0, 6, 0, 0, 0, 0, 0, 0, 0, 0>>,
     <<0, 1, 0, 15, 0, 0, 0, 0, 0, 0, 0, 0>>}

RecvHeader(bytes) ==
    /\ Fresh
    /\ buffer' = recv_from(bytes).buffer
    /\ position' = recv_from(bytes).position
    /\ src' = [kind |-> "bytes", val |-> bytes]
    /\ last' = [op |-> "recv_from", st |-> "Ok"]

\* let mut parsed = DnsHeader::new(); parsed.read(&mut buffer)
HeaderRead ==
    /\ last.op \in {"seek", "recv_from"}
    /\ LET r == DnsHeader_read(DnsHeader_new, Self)
       IN  /\ buffer' = r.b.buffer
           /\ position' = r.b.position
           /\ last' = [op |-> "DnsHeader_read", st |-> r.st, v |-> r.v, pos0 |-> position]
    /\ UNCHANGED src

NextHeader ==
    \/ New
    \/ Seek(0)
    \/ Fresh /\ \E ic \in IdCounts, fl \in FlagChoices, op \in Opcodes,
                   rc \in {ResultCodes[i] : i \in 1 .. 6} :
                    HeaderWrite(MkHeader(ic[1], fl, op, rc, ic[2]))
    \/ Fresh /\ \E bytes \in HeaderDatagrams : RecvHeader(bytes)
    \/ HeaderRead

SpecHeader == Init /\ [][NextHeader]_vars

\* the header just decoded from offset 0 was encoded there by DnsHeader_write
HeaderDecodedBack ==
    /\ last.op = "DnsHeader_read"
    /\ last.pos0 = 0
    /\ src.kind = "header"
    /\ src.start = 0

\* C4: a header with opcode in 0..15 and a result code NOERROR..REFUSED is
\* decoded back field for field; 12 bytes are written and 12 are read.
C4_HeaderRoundTrip ==
    (HeaderDecodedBack /\ src.val.opcode <= 15) =>
        /\ src.st = "Ok"
        /\ src.end = 12
        /\ last.st = "Ok"
        /\ last.v = src.val
        /\ position = 12

C4_Witness ==
    /\ HeaderDecodedBack
    /\ src.val.opcode = 15
    /\ src.val.rescode = "REFUSED"
    /\ src.val.z
    /\ last.v = src.val

S1Header == MkHeader(43981, "all", 2, "SERVFAIL", <<3, 2, 1, 4>>)

Bytes(from, n) == [i \in 1 .. n |-> buffer[from + i - 1]]

S1Encoded == src.kind = "header" /\ src.val = S1Header /\ src.start = 0

\* C5 as stated: the S1 header is emitted as AB CD 87 F6 00 03 00 02 00 01 00 04
\* and decodes back to itself.
C5_S1BytesAsStated ==
    S1Encoded =>
        /\ Bytes(0, 12) = <<171, 205, 135, 246, 0, 3, 0, 2, 0, 1, 0, 4>>
        /\ HeaderDecodedBack => last.v = S1Header

\* C5 amended: the S1 header is emitted as AB CD 97 F2 00 03 00 02 00 01 00 04
\* (flag byte A = 0x97, flag byte B = 0xF2) and decodes back to itself.
C5_S1Bytes ==
    S1Encoded =>
        /\ src.st = "Ok"
        /\ Bytes(0, 12) = <<171, 205, 151, 242, 0, 3, 0, 2, 0, 1, 0, 4>>
        /\ HeaderDecodedBack => (last.st = "Ok" /\ last.v = S1Header)

C5_Witness == S1Encoded /\ HeaderDecodedBack /\ last.st = "Ok"

(***************************************************************************)
(* QueryType: <<name>> for a named type, <<"UNKNOWN", x>> otherwise.       *)
(***************************************************************************)
QueryTypeCodes ==
    <<<<"A", 1>>, <<"NS", 2>>, <<"CNAME", 5>>, <<"SOA", 6>>, <<"PTR", 12>>,
      <<"HINFO", 13>>, <<"MINFO", 14>>, <<"MX", 15>>, <<"TXT", 16>>, <<"RP", 17>>,
      <<"AFSDB", 18>>, <<"X25", 19>>, <<"ISDN", 20>>, <<"RT", 21>>, <<"NSAP", 22>>,
      <<"NSAP_PTR", 23>>, <<"SIG", 24>>, <<"KEY", 25>>, <<"PX", 26>>, <<"AAAA", 28>>,
      <<"LOC", 29>>, <<"SRV", 33>>, <<"NAPTR", 35>>, <<"KX", 36>>, <<"CERT", 37>>,
      <<"DNAME", 39>>, <<"OPT", 41>>, <<"APL", 42>>, <<"DS", 43>>, <<"SSHFP", 44>>,
      <<"IPSECKEY", 45>>, <<"RRSIG", 46>>, <<"NSEC", 47>>, <<"DNSKEY", 48>>,
      <<"DHCID", 49>>, <<"NSEC3", 50>>, <<"NSEC3PARAM", 51>>, <<"TLSA", 52>>,
      <<"SMIMEA", 53>>, <<"HIP", 55>>, <<"CDS", 59>>, <<"CDNSKEY", 60>>,
      <<"OPENPGPKEY", 61>>, <<"CSYNC", 62>>, <<"ZONEMD", 63>>, <<"SVCB", 64>>,
      <<"HTTPS", 65>>, <<"SPF", 99>>, <<"NID", 104>>, <<"L32", 105>>, <<"L64", 106>>,
      <<"LP", 107>>, <<"EUI48", 108>>, <<"EUI64", 109>>, <<"TKEY", 249>>,
      <<"TSIG", 250>>, <<"IXFR", 251>>, <<"AXFR", 252>>, <<"ANY", 255>>,
      <<"URI", 256>>, <<"CAA", 257>>, <<"AVC", 258>>, <<"DOA", 259>>,
      <<"AMTRELAY", 260>>, <<"TA", 32768>>, <<"DLV", 32769>>>>

\* to_num losing the number an UNKNOWN carries
to_num_unknown_zero(q) ==
    IF q[1] = "UNKNOWN" THEN 0
    ELSE QueryTypeCodes[CHOOSE i \in 1 .. Len(QueryTypeCodes) :
                            QueryTypeCodes[i][1] = q[1]][2]

to_num(q) ==
    IF q[1] = "UNKNOWN" THEN q[2]
    ELSE QueryTypeCodes[CHOOSE i \in 1 .. Len(QueryTypeCodes) :
                            QueryTypeCodes[i][1] = q[1]][2]

\* the arms of the match in from_num, in order: <<code, type>>
FromNumCodes ==
    <<<<1, "A">>, <<2, "NS">>, <<5, "CNAME">>, <<6, "SOA">>, <<12, "PTR">>,
      <<13, "HINFO">>, <<14, "MINFO">>, <<15, "MX">>, <<16, "TXT">>, <<17, "RP">>,
      <<18, "AFSDB">>, <<19, "X25">>, <<20, "ISDN">>, <<21, "RT">>, <<22, "NSAP">>,
      <<23, "NSAP_PTR">>, <<24, "SIG">>, <<25, "KEY">>, <<26, "PX">>, <<28, "AAAA">>,
      <<29, "LOC">>, <<33, "SRV">>, <<35, "NAPTR">>, <<36, "KX">>, <<37, "CERT">>,
      <<39, "DNAME">>, <<41, "OPT">>, <<42, "APL">>, <<43, "DS">>, <<44, "SSHFP">>,
      <<45, "IPSECKEY">>, <<46, "RRSIG">>, <<47, "NSEC">>, <<48, "DNSKEY">>,
      <<49, "DHCID">>, <<50, "NSEC3">>, <<51, "NSEC3PARAM">>, <<52, "TLSA">>,
      <<53, "SMIMEA">>, <<55, "HIP">>, <<59, "CDS">>, <<60, "CDNSKEY">>,
      <<61, "OPENPGPKEY">>, <<62, "CSYNC">>, <<63, "ZONEMD">>, <<64, "SVCB">>,
      <<65, "HTTPS">>, <<99, "SPF">>, <<104, "NID">>, <<105, "L32">>, <<106, "L64">>,
      <<107, "LP">>, <<108, "EUI48">>, <<109, "EUI64">>, <<249, "TKEY">>,
      <<250, "TSIG">>, <<251, "IXFR">>, <<252, "AXFR">>, <<255, "ANY">>,
      <<256, "URI">>, <<257, "CAA">>, <<258, "AVC">>, <<259, "DOA">>,
      <<260, "AMTRELAY">>, <<32768, "TA">>, <<32769, "DLV">>>>

from_num(num) ==
    IF \E i \in 1 .. Len(FromNumCodes) : FromNumCodes[i][1] = num
    THEN <<FromNumCodes[CHOOSE i \in 1 .. Len(FromNumCodes) :
                            /\ FromNumCodes[i][1] = num
                            /\ \A j \in 1 .. (i - 1) : FromNumCodes[j][1] # num][2]>>
    ELSE <<"UNKNOWN", num>>

(***************************************************************************)
(* DnsRecord                                                               *)
(***************************************************************************)
\* the reads of one rdata name / number, chained like the ? operator
ReadName(b) == read_qname(b, <<>>)

\* mname, rname, serial, refresh, retry, expire, minimum
read_soa(b, domain, class, ttl) ==
    Then(ReadName(b), LAMBDA m :
    Then(ReadName(m.b), LAMBDA rn :
    Then(read_u32(rn.b), LAMBDA n1 :
    Then(read_u32(n1.b), LAMBDA n2 :
    Then(read_u32(n2.b), LAMBDA n3 :
    Then(read_u32(n3.b), LAMBDA n4 :
    Then(read_u32(n4.b), LAMBDA n5 :
    Ok(n5.b, [tag |-> "SOA", domain |-> domain, class |-> class, ttl |-> ttl,
                      mname |-> m.v, rname |-> rn.v, serial |-> n1.v,
                      refresh |-> n2.v, retry |-> n3.v, expire |-> n4.v,
                      minimum |-> n5.v]))))))))

\* read_txt comparing the string's length alone with the rdata length
RECURSIVE read_txt_len_only(_, _, _, _)
read_txt_len_only(b, len, bytes_read, data) ==
    IF ~(bytes_read < len) THEN Ok(b, data)
    ELSE Then(read(b), LAMBDA t :
         LET txt_len == t.v
             br == bytes_read + 1
         IN  IF txt_len > len THEN Err(t.b, "TxtOverrun")
             ELSE Then(get_range(t.b, pos(t.b), txt_len), LAMBDA g :
                  read_txt_len_only(step(t.b, txt_len), len, br + txt_len,
                                    Append(data, from_utf8_lossy(g.v)))))

RECURSIVE read_txt(_, _, _, _)
read_txt(b, len, bytes_read, data) ==
    IF ~(bytes_read < len) THEN Ok(b, data)
    ELSE Then(read(b), LAMBDA t :
         LET txt_len == t.v
             br == bytes_read + 1
         IN  IF br + txt_len > len THEN Err(t.b, "TxtOverrun")
             ELSE Then(get_range(t.b, pos(t.b), txt_len), LAMBDA g :
                  read_txt(step(t.b, txt_len), len, br + txt_len,
                           Append(data, from_utf8_lossy(g.v)))))

read_aaaa(b, domain, class, ttl) ==
    Then(read_u32(b), LAMBDA a1 :
    Then(read_u32(a1.b), LAMBDA a2 :
    Then(read_u32(a2.b), LAMBDA a3 :
    Then(read_u32(a3.b), LAMBDA a4 :
    Ok(a4.b, [tag |-> "AAAA", domain |-> domain, class |-> class, ttl |-> ttl,
                      addr |-> <<U32Half(a1.v, 16), U32Half(a1.v, 0),
                                 U32Half(a2.v, 16), U32Half(a2.v, 0),
                                 U32Half(a3.v, 16), U32Half(a3.v, 0),
                                 U32Half(a4.v, 16), U32Half(a4.v, 0)>>])))))

\* the match on qtype, after the preamble
read_rdata(b, domain, qtype, class, ttl, len) ==
    CASE qtype = <<"A">> ->
            Then(read_u32(b), LAMBDA ip :
            Ok(ip.b, [tag |-> "A", domain |-> domain, class |-> class,
                               ttl |-> ttl,
                               addr |-> <<U32Byte(ip.v, 24), U32Byte(ip.v, 16),
                                          U32Byte(ip.v, 8), U32Byte(ip.v, 0)>>]))
      [] qtype \in {<<"NS">>, <<"CNAME">>, <<"PTR">>} ->
            Then(ReadName(b), LAMBDA h :
            Ok(h.b, [tag |-> qtype[1], domain |-> domain, class |-> class,
                              ttl |-> ttl, host |-> h.v]))
      [] qtype = <<"SOA">> -> read_soa(b, domain, class, ttl)
      [] qtype = <<"MX">> ->
            Then(read_u16(b), LAMBDA pr :
            Then(ReadName(pr.b), LAMBDA h :
            Ok(h.b, [tag |-> "MX", domain |-> domain, class |-> class,
                                  ttl |-> ttl, priority |-> pr.v, host |-> h.v])))
      [] qtype = <<"TXT">> ->
            Then(read_txt(b, len, 0, <<>>), LAMBDA t :
            Ok(t.b, [tag |-> "TXT", domain |-> domain, class |-> class,
                              ttl |-> ttl, data |-> t.v]))
      [] qtype = <<"AAAA">> -> read_aaaa(b, domain, class, ttl)
      [] OTHER ->
            Then(get_range(b, pos(b), len), LAMBDA g :
            Ok(step(b, len), [tag |-> "UNKNOWN", domain |-> domain,
                                       qtype |-> qtype, class |-> class, ttl |-> ttl,
                                       data |-> g.v]))

DnsRecord_read(b) ==
    Then(read_qname(b, <<>>), LAMBDA d :
    Then(read_u16(d.b), LAMBDA t :
    Then(read_u16(t.b), LAMBDA c :
    Then(read_u32(c.b), LAMBDA l :
    Then(read_u16(l.b), LAMBDA n :
    read_rdata(n.b, d.v, from_num(t.v), c.v, l.v, n.v))))))

\* domain, type, class and ttl, as every arm of write emits them
write_preamble(b, domain, qtype, class, ttl) ==
    Then(write_qname(b, domain), LAMBDA w1 :
    Then(write_u16(w1.b, to_num(qtype)), LAMBDA w2 :
    Then(write_u16(w2.b, class), LAMBDA w3 :
    write_u32(w3.b, ttl))))

RECURSIVE write_u16s(_, _, _)
write_u16s(b, vals, i) ==
    IF i > Len(vals) THEN Ok(b, <<>>)
    ELSE Then(write_u16(b, vals[i]), LAMBDA w1 :
         write_u16s(w1.b, vals, i + 1))

RECURSIVE write_txts(_, _, _)
write_txts(b, data, i) ==
    IF i > Len(data) THEN Ok(b, <<>>)
    ELSE Then(write_u8(b, Len(data[i]) % 256), LAMBDA w1 :
         Then(write_bytes(w1.b, data[i], 1), LAMBDA w2 :
         write_txts(w2.b, data, i + 1)))

patch_rdlength_from_slot(b, rdlength_pos) ==
    set_u16(b, rdlength_pos, (pos(b) - rdlength_pos) % 65536)

\* buffer.set_u16(rdlength_pos, (buffer.pos() - rdata_start) as u16)
patch_rdlength(b, rdlength_pos) ==
    set_u16(b, rdlength_pos, (pos(b) - (rdlength_pos + 2)) % 65536)

\* the rdata of the arms that back-patch rdlength
write_var_rdata(self, b) ==
    CASE self.tag \in {"NS", "CNAME", "PTR"} -> write_qname(b, self.host)
      [] self.tag = "MX" ->
            Then(write_u16(b, self.priority), LAMBDA w1 :
            write_qname(w1.b, self.host))
      [] self.tag = "SOA" ->
            Then(write_qname(b, self.mname), LAMBDA w1 :
            Then(write_qname(w1.b, self.rname), LAMBDA w2 :
            Then(write_u32(w2.b, self.serial), LAMBDA w3 :
            Then(write_u32(w3.b, self.refresh), LAMBDA w4 :
            Then(write_u32(w4.b, self.retry), LAMBDA w5 :
            Then(write_u32(w5.b, self.expire), LAMBDA w6 :
            write_u32(w6.b, self.minimum)))))))
      [] self.tag = "TXT" -> write_txts(b, self.data, 1)

DnsRecord_write(self, b) ==
    LET start_pos == pos(b)
        written ==
            CASE self.tag = "A" ->
                    Then(write_preamble(b, self.domain, <<"A">>, self.class, self.ttl),
                         LAMBDA w1 :
                    Then(write_u16(w1.b, Len(self.addr)), LAMBDA w2 :
                    write_bytes(w2.b, self.addr, 1)))
              [] self.tag = "AAAA" ->
                    Then(write_preamble(b, self.domain, <<"AAAA">>, self.class, self.ttl),
                         LAMBDA w1 :
                    Then(write_u16(w1.b, 16), LAMBDA w2 :
                    write_u16s(w2.b, self.addr, 1)))
              [] self.tag = "UNKNOWN" ->
                    Then(write_preamble(b, self.domain, self.qtype, self.class, self.ttl),
                         LAMBDA w1 :
                    Then(write_u16(w1.b, Len(self.data) % 65536), LAMBDA w2 :
                    write_bytes(w2.b, self.data, 1)))
              [] OTHER ->
                    Then(write_preamble(b, self.domain, <<self.tag>>, self.class, self.ttl),
                         LAMBDA w1 :
                    Then(write_u16(w1.b, 0), LAMBDA w2 :
                    Then(write_var_rdata(self, w2.b), LAMBDA w3 :
                    patch_rdlength(w3.b, pos(w1.b)))))
    IN  Then(written, LAMBDA w : Ok(w.b, pos(w.b) - start_pos))

(***************************************************************************)
(* Records written and read back.  Strings are their UTF-8 bytes.          *)
(***************************************************************************)
RootName == <<>>

\* "a"
NameA == <<97>>

\* "A.b"
NameUpper == <<65, 46, 98>>

\* "a."
NameTrailingDot == <<97, 46>>

\* "example.com"
NameExample == <<101, 120, 97, 109, 112, 108, 101, 46, 99, 111, 109>>

\* "mail.example.com"
NameMail == <<109, 97, 105, 108, 46>> \o NameExample

\* "ns1.Example.com"
NameNs1 == <<110, 115, 49, 46, 69>> \o SubSeq(NameExample, 2, 11)

\* one label of MaxLabel + 1 bytes
NameLongLabel == [i \in 1 .. (MaxLabel + 1) |-> 97]

Letters(n) == [i \in 1 .. n |-> 97 + (i % 26)]

Preambles ==
    {[domain |-> d, class |-> 1, ttl |-> <<0, 60>>] :
        d \in {RootName, NameA, NameUpper, NameTrailingDot, NameExample, NameLongLabel}}
    \cup {[domain |-> NameA, class |-> 255, ttl |-> <<65535, 65535>>]}

Hosts == {RootName, NameNs1, NameLongLabel}

TxtDatas ==
    {<<>>, <<<<104, 105>>>>, <<<<97>>, <<98, 99>>>>, <<<<>>>>, <<<<72, 195, 169>>>>,
     <<Letters(255)>>, <<Letters(256)>>, <<Letters(255), Letters(240)>>}

UnknownTypes == {<<"UNKNOWN", 65000>>, <<"UNKNOWN", 0>>, <<"UNKNOWN", 1>>, <<"HINFO">>}

\* 9 and 499 bytes end at byte 511 after a one-label name written at 490 and at 0
UnknownDatas == {<<>>, <<170, 187, 204>>, <<0, 0>>, Letters(9), Letters(499)}

Rdatas ==
    {[tag |-> "A", addr |-> a] : a \in {<<192, 0, 2, 1>>, <<255, 255, 255, 255>>}}
    \cup {[tag |-> "AAAA", addr |-> a] :
            a \in {<<8193, 3512, 0, 0, 0, 0, 0, 1>>, [i \in 1 .. 8 |-> 65535]}}
    \cup {[tag |-> t, host |-> h] : t \in {"NS", "CNAME", "PTR"}, h \in Hosts}
    \cup {[tag |-> "MX", priority |-> p, host |-> h] :
            p \in {10, 65535}, h \in {NameMail, RootName}}
    \cup {[tag |-> "SOA", mname |-> NameNs1, rname |-> m, serial |-> n,
           refresh |-> <<0, 7200>>, retry |-> <<0, 0>>, expire |-> <<65535, 65535>>,
           minimum |-> <<0, 60>>] :
            m \in {NameMail, RootName}, n \in {<<30883, 61813>>}}
    \cup {[tag |-> "TXT", data |-> d] : d \in TxtDatas}
    \cup {[tag |-> "UNKNOWN", qtype |-> q, data |-> d] :
            q \in UnknownTypes, d \in UnknownDatas}

\* a record value: the fields of the preamble and those of the rdata
Merge(f, g) ==
    [k \in (DOMAIN f) \cup (DOMAIN g) |-> IF k \in DOMAIN f THEN f[k] ELSE g[k]]

Records == {Merge(p, d) : p \in Preambles, d \in Rdatas}

RecordSeeks == {0, 12, 490}

\* rec.write(&mut buffer)
RecordWrite(r) ==
    /\ src.kind = "none"
    /\ last.op \in {"new", "seek"}
    /\ LET w == DnsRecord_write(r, Self)
       IN  /\ buffer' = w.b.buffer
           /\ position' = w.b.position
           /\ src' = [kind |-> "record", val |-> r, st |-> w.st,
                      start |-> position, end |-> w.b.position]
           /\ last' = [op |-> "DnsRecord_write", st |-> w.st]

\* DnsRecord::read(&mut buffer)
RecordRead ==
    /\ Running
    /\ src.kind = "record"
    /\ last.op = "seek"
    /\ LET r == DnsRecord_read(Self)
       IN  /\ buffer' = r.b.buffer
           /\ position' = r.b.position
           /\ last' = [op |-> "DnsRecord_read", st |-> r.st, v |-> r.v,
                       pos0 |-> position]
           /\ UNCHANGED src

NextRecord ==
    \/ New
    \/ \E p \in RecordSeeks : Seek(p)
    \/ (src.kind = "none" /\ \E r \in Records : RecordWrite(r))
    \/ RecordRead

SpecRecord == Init /\ [][NextRecord]_vars

(***************************************************************************)
(* Record properties                                                       *)
(***************************************************************************)
NameFields == {"name", "domain", "host", "mname", "rname"}

\* the record with its names lowercased
Lowered(r) ==
    [k \in DOMAIN r |-> IF k \in NameFields THEN to_lowercase(r[k]) ELSE r[k]]

WroteRecord == src.kind = "record" /\ src.st = "Ok"

ReadRecordBack ==
    WroteRecord /\ last.op = "DnsRecord_read" /\ last.pos0 = src.start

\* C2: a record of variant A, AAAA, NS, CNAME, PTR, MX, SOA or TXT written
\* into a fresh buffer and read back from 0 is returned equal, names lowercased.
C2_RecordRoundTrip ==
    (ReadRecordBack /\ src.start = 0 /\ src.val.tag # "UNKNOWN")
        => (last.st = "Ok" /\ last.v = Lowered(src.val))

\* C3: an UNKNOWN record that was encoded decodes to an UNKNOWN record with
\* the same qtype, class, ttl and rdata bytes.
C3_UnknownPassthrough ==
    (ReadRecordBack /\ src.val.tag = "UNKNOWN")
        => /\ last.st = "Ok"
           /\ last.v.tag = "UNKNOWN"
           /\ last.v.qtype = src.val.qtype
           /\ last.v.class = src.val.class
           /\ last.v.ttl = src.val.ttl
           /\ last.v.data = src.val.data

\* where the writer put the rdlength of the record in the buffer: after the
\* encoded domain, the type, the class and the ttl
RdlengthSlot == pos(write_qname(seek(new, src.start), src.val.domain).b) + 8

Rdlength == BitOr(Shl(buffer[RdlengthSlot], 8, 16), buffer[RdlengthSlot + 1])

IsMx10Mail ==
    src.val.tag = "MX" /\ src.val.priority = 10 /\ src.val.host = NameMail

\* C6: in every record that write encoded, the big-endian u16 at the rdlength
\* slot is the number of bytes written after the slot (end of the record minus
\* slot minus 2): 20 for MX 10 mail.example.com, 4 for an A record.
C6_RdlengthCorrect ==
    WroteRecord
        => /\ Rdlength = src.end - RdlengthSlot - 2
           /\ (src.val.tag = "A" => Rdlength = 4)
           /\ (IsMx10Mail => Rdlength = 20)

C6_Witness == WroteRecord /\ IsMx10Mail /\ last.op = "DnsRecord_write"

(***************************************************************************)
(* DnsQuestion                                                             *)
(***************************************************************************)
DnsQuestion_new(name, qtype) == [name |-> name, qtype |-> qtype]

DnsQuestion_read(self, b) ==
    Then(read_qname(b, self.name), LAMBDA n :
    Then(read_u16(n.b), LAMBDA t :
    Then(read_u16(t.b), LAMBDA c :
    Ok(c.b, [self EXCEPT !.name = n.v, !.qtype = from_num(t.v)]))))

DnsQuestion_write(self, b) ==
    Then(write_qname(b, self.name), LAMBDA w1 :
    Then(write_u16(w1.b, to_num(self.qtype)), LAMBDA w2 :
    write_u16(w2.b, 1)))

(***************************************************************************)
(* DnsPacket                                                               *)
(***************************************************************************)
DnsPacket_new ==
    [header |-> DnsHeader_new, questions |-> <<>>, answers |-> <<>>,
     authorities |-> <<>>, resources |-> <<>>]

\* for _ in 0..count { question.read(buffer)?; p.questions.push(question) }
RECURSIVE read_questions(_, _, _)
read_questions(b, count, acc) ==
    IF count = 0 THEN Ok(b, acc)
    ELSE Then(DnsQuestion_read(DnsQuestion_new(<<>>, <<"UNKNOWN", 0>>), b), LAMBDA q :
         read_questions(q.b, count - 1, Append(acc, q.v)))

\* for _ in 0..count { list.push(DnsRecord::read(buffer)?) }
RECURSIVE read_records(_, _, _)
read_records(b, count, acc) ==
    IF count = 0 THEN Ok(b, acc)
    ELSE Then(DnsRecord_read(b), LAMBDA r :
         read_records(r.b, count - 1, Append(acc, r.v)))

\* from_buffer looping over the authority and additional counts the wrong
\* way round
DnsPacket_from_buffer_swapped(b) ==
    Then(DnsHeader_read(DnsPacket_new.header, b), LAMBDA h :
    Then(read_questions(h.b, h.v.questions, <<>>), LAMBDA q :
    Then(read_records(q.b, h.v.answers, <<>>), LAMBDA an :
    Then(read_records(an.b, h.v.resource_entries, <<>>), LAMBDA au :
    Then(read_records(au.b, h.v.authoritative_entries, <<>>), LAMBDA re :
    Ok(re.b, [header |-> h.v, questions |-> q.v, answers |-> an.v,
                           authorities |-> au.v, resources |-> re.v]))))))

DnsPacket_from_buffer(b) ==
    Then(DnsHeader_read(DnsPacket_new.header, b), LAMBDA h :
    Then(read_questions(h.b, h.v.questions, <<>>), LAMBDA q :
    Then(read_records(q.b, h.v.answers, <<>>), LAMBDA an :
    Then(read_records(an.b, h.v.authoritative_entries, <<>>), LAMBDA au :
    Then(read_records(au.b, h.v.resource_entries, <<>>), LAMBDA re :
    Ok(re.b, [header |-> h.v, questions |-> q.v, answers |-> an.v,
                           authorities |-> au.v, resources |-> re.v]))))))

RECURSIVE write_questions(_, _, _)
write_questions(b, list, i) ==
    IF i > Len(list) THEN Ok(b, <<>>)
    ELSE Then(DnsQuestion_write(list[i], b), LAMBDA w1 :
         write_questions(w1.b, list, i + 1))

RECURSIVE write_records(_, _, _)
write_records(b, list, i) ==
    IF i > Len(list) THEN Ok(b, <<>>)
    ELSE Then(DnsRecord_write(list[i], b), LAMBDA w1 :
         write_records(w1.b, list, i + 1))

set_counts_keep_resources(self) ==
    [self EXCEPT !.header.questions = Len(self.questions) % 65536,
                 !.header.answers = Len(self.answers) % 65536,
                 !.header.authoritative_entries = Len(self.authorities) % 65536]

\* the four assignments that open write: every count is the list's len() as u16
set_counts(self) ==
    [self EXCEPT !.header.questions = Len(self.questions) % 65536,
                 !.header.answers = Len(self.answers) % 65536,
                 !.header.authoritative_entries = Len(self.authorities) % 65536,
                 !.header.resource_entries = Len(self.resources) % 65536]

\* the result carries the packet as write leaves it (&mut self)
DnsPacket_write(self, b) ==
    LET p == set_counts(self)
        w == Then(DnsHeader_write(p.header, b), LAMBDA w1 :
             Then(write_questions(w1.b, p.questions, 1), LAMBDA w2 :
             Then(write_records(w2.b, p.answers, 1), LAMBDA w3 :
             Then(write_records(w3.b, p.authorities, 1), LAMBDA w4 :
             write_records(w4.b, p.resources, 1)))))
    IN  [w EXCEPT !.v = p]

(***************************************************************************)
(* Packets written and parsed back.                                        *)
(***************************************************************************)
Palettes == {"plain", "root", "alias", "large"}

In1 == [class |-> 1, ttl |-> <<0, 300>>]

RecA(d) == Merge([tag |-> "A", domain |-> d, addr |-> <<192, 0, 2, 1>>], In1)

PaletteQuestions(p) ==
    CASE p = "root" ->
            <<DnsQuestion_new(RootName, <<"NS">>), DnsQuestion_new(NameA, <<"A">>),
              DnsQuestion_new(NameExample, <<"MX">>)>>
      [] p = "alias" ->
            <<DnsQuestion_new(NameA, <<"UNKNOWN", 1>>), DnsQuestion_new(NameA, <<"A">>),
              DnsQuestion_new(NameExample, <<"MX">>)>>
      [] OTHER ->
            <<DnsQuestion_new(NameExample, <<"A">>), DnsQuestion_new(NameA, <<"MX">>),
              DnsQuestion_new(NameUpper, <<"UNKNOWN", 65000>>)>>

PaletteRecords(p) ==
    CASE p = "root" ->
            <<Merge([tag |-> "NS", domain |-> RootName, host |-> NameNs1], In1),
              RecA(NameA),
              Merge([tag |-> "TXT", domain |-> NameA, data |-> <<<<104, 105>>>>], In1)>>
      [] p = "large" ->
            <<Merge([tag |-> "TXT", domain |-> NameExample, data |-> <<Letters(230)>>], In1),
              RecA(NameA),
              Merge([tag |-> "CNAME", domain |-> NameA, host |-> NameExample], In1)>>
      [] OTHER ->
            <<RecA(NameExample),
              Merge([tag |-> "MX", domain |-> NameExample, priority |-> 10,
                     host |-> NameMail], In1),
              Merge([tag |-> "UNKNOWN", domain |-> NameUpper, qtype |-> <<"UNKNOWN", 65000>>,
                     data |-> <<170, 187, 204>>], In1)>>

\* n items of a palette list, from item 1 + from, around the list
Take(list, from, n) == [i \in 1 .. n |-> list[((from + i - 1) % Len(list)) + 1]]

CountChoices == {<<0, 0, 0, 0>>, <<7, 9, 65535, 1>>}

\* sh: the lengths of the four lists; cn: the header counts before write
MkPacket(p, sh, cn) ==
    [header |-> MkHeader(4660, "recursion_desired", 0, "NOERROR", cn),
     questions |-> Take(PaletteQuestions(p), 0, sh[1]),
     answers |-> Take(PaletteRecords(p), 0, sh[2]),
     authorities |-> Take(PaletteRecords(p), 1, sh[3]),
     resources |-> Take(PaletteRecords(p), 2, sh[4])]

\* packet.write(&mut buffer) on a new buffer
PacketWrite(P) ==
    /\ Fresh
    /\ LET w == DnsPacket_write(P, Self)
       IN  /\ buffer' = w.b.buffer
           /\ position' = w.b.position
           /\ src' = [kind |-> "packet", val |-> P, after |-> w.v, st |-> w.st,
                      start |-> position, end |-> w.b.position]
           /\ last' = [op |-> "DnsPacket_write", st |-> w.st]

\* DnsPacket::from_buffer(&mut buffer)
PacketRead ==
    /\ Running
    /\ src.kind = "packet"
    /\ last.op = "seek"
    /\ LET r == DnsPacket_from_buffer(Self)
       IN  /\ buffer' = r.b.buffer
           /\ position' = r.b.position
           /\ last' = [op |-> "DnsPacket_from_buffer", st |-> r.st, v |-> r.v,
                       pos0 |-> position]
           /\ UNCHANGED src

NextPacket ==
    \/ New
    \/ Seek(0)
    \/ (Fresh /\ \E p \in Palettes, sh \in [1 .. 4 -> 0 .. MaxList], cn \in CountChoices :
                    PacketWrite(MkPacket(p, sh, cn)))
    \/ PacketRead

SpecPacket == Init /\ [][NextPacket]_vars

LoweredAll(list) == [i \in 1 .. Len(list) |-> Lowered(list[i])]

\* C7: a packet that write encoded parses back, from 0, to a packet whose four
\* lists have the same lengths and the same elements in the same order (names
\* compared lowercased, as the decoder returns them).
C7_PacketRoundTrip ==
    (src.kind = "packet" /\ src.st = "Ok" /\ last.op = "DnsPacket_from_buffer"
        /\ last.pos0 = 0)
        => /\ last.st = "Ok"
           /\ last.v.questions = LoweredAll(src.val.questions)
           /\ last.v.answers = LoweredAll(src.val.answers)
           /\ last.v.authorities = LoweredAll(src.val.authorities)
           /\ last.v.resources = LoweredAll(src.val.resources)

U16At(i) == BitOr(Shl(buffer[i], 8, 16), buffer[i + 1])

\* C8: after write the four header counts of the packet are the lengths of its
\* four lists, whatever they were before, and bytes 4..11 of the output hold
\* these counts.
C8_PacketCounts ==
    src.kind = "packet"
        => /\ src.after.header.questions = Len(src.val.questions)
           /\ src.after.header.answers = Len(src.val.answers)
           /\ src.after.header.authoritative_entries = Len(src.val.authorities)
           /\ src.after.header.resource_entries = Len(src.val.resources)
           /\ U16At(4) = Len(src.val.questions)
           /\ U16At(6) = Len(src.val.answers)
           /\ U16At(8) = Len(src.val.authorities)
           /\ U16At(10) = Len(src.val.resources)

C8_Witness ==
    /\ src.kind = "packet"
    /\ last.op = "DnsPacket_write"
    /\ src.val.header.resource_entries = 1
    /\ Len(src.val.resources) = 2
    /\ src.val.header.authoritative_entries = 65535
    /\ Len(src.val.authorities) = 0

(***************************************************************************)
(* Questions written and read back.                                        *)
(***************************************************************************)
\* "MiXeD.Case.Test"
NameMixed == <<77, 105, 88, 101, 68, 46, 67, 97, 115, 101, 46, 84, 101, 115, 116>>

\* "mixed.case.test"
NameMixedLower == <<109, 105, 120, 101, 100, 46, 99, 97, 115, 101, 46, 116, 101, 115, 116>>

\* one label of MaxLabel bytes
NameFullLabel == [i \in 1 .. MaxLabel |-> 65 + (i % 26)]

QuestionNames ==
    {RootName, NameA, NameUpper, NameTrailingDot, NameExample, NameMixed,
     NameFullLabel, NameLongLabel, NameFullLabel \o Dot \o NameMixed}

QuestionTypes ==
    {<<"A">>, <<"MX">>, <<"AAAA">>, <<"ANY">>, <<"DLV">>,
     <<"UNKNOWN", 65000>>, <<"UNKNOWN", 0>>, <<"UNKNOWN", 1>>}

QuestionSeeks == {0, 12, 440, 500}

\* question.write(&mut buffer)
QuestionWrite(q) ==
    /\ src.kind = "none"
    /\ last.op \in {"new", "seek"}
    /\ LET w == DnsQuestion_write(q, Self)
       IN  /\ buffer' = w.b.buffer
           /\ position' = w.b.position
           /\ src' = [kind |-> "question", val |-> q, st |-> w.st,
                      start |-> position, end |-> w.b.position]
           /\ last' = [op |-> "DnsQuestion_write", st |-> w.st]

\* let mut parsed = DnsQuestion::new(String::new(), QueryType::UNKNOWN(0));
\* parsed.read(&mut buffer)
QuestionRead ==
    /\ Running
    /\ src.kind = "question"
    /\ last.op = "seek"
    /\ LET r == DnsQuestion_read(DnsQuestion_new(<<>>, <<"UNKNOWN", 0>>), Self)
       IN  /\ buffer' = r.b.buffer
           /\ position' = r.b.position
           /\ last' = [op |-> "DnsQuestion_read", st |-> r.st, v |-> r.v,
                       pos0 |-> position]
           /\ UNCHANGED src

NextQuestion ==
    \/ New
    \/ \E p \in QuestionSeeks : Seek(p)
    \/ (src.kind = "none" /\ \E n \in QuestionNames, t \in QuestionTypes :
                                QuestionWrite(DnsQuestion_new(n, t)))
    \/ QuestionRead

SpecQuestion == Init /\ [][NextQuestion]_vars

\* every label of the dotted name has 1 to MaxLabel bytes
LabelsInRange(name) ==
    \A i \in 1 .. Len(split(name)) :
        Len(split(name)[i]) >= 1 /\ Len(split(name)[i]) <= MaxLabel

ReadQuestionBack ==
    /\ src.kind = "question"
    /\ src.st = "Ok"
    /\ src.start = 0
    /\ last.op = "DnsQuestion_read"
    /\ last.pos0 = 0

\* C11: a question whose labels have 1 to 63 bytes, written at 0 and read back
\* from 0, comes back with its name lowercased and the same qtype, and the
\* cursor after the read is the cursor after the write; MiXeD.Case.Test comes
\* back as mixed.case.test.
C11_QuestionRoundTrip ==
    (ReadQuestionBack /\ LabelsInRange(src.val.name))
        => /\ last.st = "Ok"
           /\ last.v.name = to_lowercase(src.val.name)
           /\ (src.val.name = NameMixed => last.v.name = NameMixedLower)
           /\ last.v.qtype = src.val.qtype
           /\ position = src.end

(***************************************************************************)
(* Sequences of writes.  A caller creates a buffer and calls write_u8,     *)
(* write_u16 and write_u32 on it, as buffer_tests.rs does 513 times; it    *)
(* may seek to the last bytes in between (coverage.rs line 85).  src keeps *)
(* the number n of calls made since new() while all of them were write_u8. *)
(***************************************************************************)
WriteValue == 10 * 16 + 10

WriteValue16 == 256 * WriteValue + WriteValue

WriteSeeks == {BufSize - 2, BufSize - 1}

Writes == IF src.kind = "writes" THEN src ELSE [kind |-> "writes", n |-> 0, pure |-> TRUE]

AfterWrite(op, w, isU8) ==
    /\ buffer' = w.b.buffer
    /\ position' = w.b.position
    /\ src' = [kind |-> "writes", n |-> IF Writes.pure /\ isU8 THEN Writes.n + 1 ELSE 0,
               pure |-> Writes.pure /\ isU8]
    /\ last' = [op |-> op, st |-> w.st, pos0 |-> position]

\* buffer.write_u8(val)
WriteU8 ==
    /\ Running
    /\ src.kind \in {"none", "writes"}
    /\ Writes.n <= BufSize
    /\ AfterWrite("write_u8", write_u8(Self, WriteValue), TRUE)

\* buffer.write_u16(val)
WriteU16 ==
    /\ Running
    /\ src.kind \in {"none", "writes"}
    /\ AfterWrite("write_u16", write_u16(Self, WriteValue16), FALSE)

\* buffer.write_u32(val)
WriteU32 ==
    /\ Running
    /\ src.kind \in {"none", "writes"}
    /\ AfterWrite("write_u32", write_u32(Self, <<WriteValue16, WriteValue16>>), FALSE)

\* buffer.seek(p) between writes
WriteSeek(p) ==
    /\ Running
    /\ src.kind \in {"none", "writes"}
    /\ buffer' = seek(Self, p).buffer
    /\ position' = seek(Self, p).position
    /\ src' = [kind |-> "writes", n |-> 0, pure |-> FALSE]
    /\ last' = [op |-> "seek", st |-> "Ok"]

NextWrite ==
    \/ New
    \/ WriteU8
    \/ WriteU16
    \/ WriteU32
    \/ \E p \in WriteSeeks : WriteSeek(p)

SpecWrite == Init /\ [][NextWrite]_vars

Width(op) == IF op = "write_u8" THEN 1 ELSE IF op = "write_u16" THEN 2 ELSE 4

WriteOps == {"write_u8", "write_u16", "write_u32"}

\* C12: a byte write succeeds exactly when the cursor is below 512 before
\* it (so a write of w bytes succeeds exactly when cursor + w <= 512); from
\* a fresh buffer the first 512 write_u8 calls succeed and the 513th fails;
\* after any sequence of write_u8 / write_u16 / write_u32 calls the cursor
\* is at most 512, the store still has exactly the indices 0..511 and no
\* call has panicked; a write stores its bytes at the cursor and moves the
\* cursor by the number of bytes stored.
C12_BufferBound ==
    /\ position <= BufSize
    /\ DOMAIN buffer = 0 .. BufSize - 1
    /\ last.st # "Panic"
    /\ last.op \in WriteOps =>
          /\ (last.st = "Ok") <=> (last.pos0 + Width(last.op) <= BufSize)
          /\ last.st # "Ok" => last.st = "BufferOverflow"
          /\ position = IF last.pos0 + Width(last.op) <= BufSize
                        THEN last.pos0 + Width(last.op) ELSE BufSize
          /\ \A i \in last.pos0 .. position - 1 : buffer[i] = WriteValue
    /\ (last.op = "write_u8" /\ src.kind = "writes" /\ src.pure) =>
          /\ last.pos0 = IF src.n <= BufSize THEN src.n - 1 ELSE BufSize
          /\ (last.st = "Ok") <=> (src.n <= BufSize)

\* the 513th write_u8 on a fresh buffer has just failed
C12_Witness ==
    /\ src.kind = "writes" /\ src.pure /\ src.n = BufSize + 1
    /\ last.op = "write_u8" /\ last.st = "BufferOverflow"
    /\ position = BufSize
    /\ \A i \in 0 .. BufSize - 1 : buffer[i] = WriteValue

(***************************************************************************)
(* Name encoding.  A caller positions the cursor and calls write_qname on  *)
(* a dotted name (coverage.rs lines 94 and 273-278).  src keeps the name,  *)
(* the cursor before and after the call and the call's result.             *)
(***************************************************************************)
\* "a..b"
NameDoubleDot == <<97, 46, 46, 98>>

\* ".a"
NameLeadingDot == <<46, 97>>

RECURSIVE Join(_)
Join(labels) ==
    IF labels = <<>> THEN <<>>
    ELSE IF Len(labels) = 1 THEN labels[1]
    ELSE labels[1] \o Dot \o Join(Tail(labels))

\* eight labels of MaxLabel bytes: 512 bytes of labels
NameEightLabels == Join([i \in 1 .. 8 |-> NameFullLabel])

WriteNames ==
    {RootName, NameA, NameTrailingDot, NameDoubleDot, NameLeadingDot, NameExample,
     NameMixed, NameFullLabel, NameLongLabel,
     NameA \o Dot \o NameLongLabel,
     NameLongLabel \o Dot \o NameA,
     NameA \o Dot \o NameLongLabel \o Dot \o NameExample,
     NameTrailingDot \o Dot \o NameLongLabel,
     NameEightLabels,
     NameEightLabels \o Dot \o NameLongLabel}

WriteNameSeeks == {0, 12, 447, 448, 500, 510, 511, 512}

\* buffer.write_qname(domain)
WriteQname(domain) ==
    /\ Running
    /\ src.kind = "none"
    /\ last.op \in {"new", "seek"}
    /\ LET w == write_qname(Self, domain)
       IN  /\ buffer' = w.b.buffer
           /\ position' = w.b.position
           /\ src' = [kind |-> "qname", domain |-> domain, st |-> w.st,
                      start |-> position, end |-> w.b.position]
           /\ last' = [op |-> "write_qname", st |-> w.st]

NextWriteName ==
    \/ New
    \/ (src.kind = "none" /\ \E p \in WriteNameSeeks : Seek(p))
    \/ \E domain \in WriteNames : WriteQname(domain)

SpecWriteName == Init /\ [][NextWriteName]_vars

NonEmpty(labels) == SelectSeq(labels, LAMBDA l : l # <<>>)

RECURSIVE Encoded(_)
Encoded(labels) ==
    IF labels = <<>> THEN <<0>>
    ELSE <<Len(labels[1])>> \o labels[1] \o Encoded(Tail(labels))

\* the wire form the claim describes: the non-empty labels, then one zero
Expected(domain) == Encoded(NonEmpty(split(domain)))

AllShort(domain) == \A i \in 1 .. Len(split(domain)) : Len(split(domain)[i]) <= MaxLabel

Emitted == [i \in 1 .. (src.end - src.start) |-> buffer[src.start + i - 1]]

\* walks the emitted bytes label by label: every length byte is below 192,
\* and the only zero length byte is the last byte emitted
RECURSIVE LengthBytesOk(_, _)
LengthBytesOk(bytes, i) ==
    IF i > Len(bytes) THEN FALSE
    ELSE IF bytes[i] = 0 THEN i = Len(bytes)
    ELSE BitAnd(bytes[i], 192) # 192 /\ LengthBytesOk(bytes, i + 1 + bytes[i])

WroteQname == src.kind = "qname" /\ last.op = "write_qname"

\* C13: for a name whose labels are all of at most 63 bytes and whose
\* encoding fits before byte 512, write_qname succeeds and emits, for each
\* non-empty label in order, one length byte and the label's bytes, then
\* exactly one zero byte; empty labels emit nothing (the root name is the
\* single byte 00); the cursor advances by the sum over the non-empty labels
\* of 1 + length, plus 1; no emitted length byte has its top two bits set.
C13_NameEncoding ==
    (WroteQname /\ AllShort(src.domain)
                /\ src.start + Len(Expected(src.domain)) <= BufSize)
        => /\ src.st = "Ok"
           /\ Emitted = Expected(src.domain)
           /\ position = src.start + Len(Expected(src.domain))
           /\ LengthBytesOk(Emitted, 1)

\* the bytes write_qname stores for the labels that stand before the first
\* label of more than 63 bytes: a length byte and the label, for each
RECURSIVE BytesBeforeLong(_)
BytesBeforeLong(labels) ==
    IF labels = <<>> \/ Len(labels[1]) > MaxLabel THEN 0
    ELSE 1 + Len(labels[1]) + BytesBeforeLong(Tail(labels))

\* C14 as stated: write_qname returns LabelTooLong for every domain with a
\* label of more than 63 bytes, wherever the label stands, and never for a
\* domain whose labels are all of at most 63 bytes.
C14_LabelTooLongAsStated ==
    WroteQname => ((src.st = "LabelTooLong") <=> ~AllShort(src.domain))

\* C14 (amended): write_qname fails for every domain with a label of more
\* than 63 bytes, wherever the label stands: with LabelTooLong when the
\* labels before the first such label (each with its length byte) fit
\* between the cursor and byte 512, with BufferOverflow when they do not;
\* it never returns LabelTooLong for a domain whose labels are all of at
\* most 63 bytes.
C14_LabelTooLong ==
    WroteQname =>
        /\ AllShort(src.domain) => src.st # "LabelTooLong"
        /\ ~AllShort(src.domain) =>
              src.st = IF src.start + BytesBeforeLong(split(src.domain)) <= BufSize
                       THEN "LabelTooLong" ELSE "BufferOverflow"

\* a 64-byte label between two short ones has been rejected
C14_Witness ==
    /\ WroteQname
    /\ src.domain = NameA \o Dot \o NameLongLabel \o Dot \o NameExample
    /\ src.st = "LabelTooLong"
    /\ src.end = src.start + 2

(***************************************************************************)
(* Slices.  A caller fills the buffer with 512 write_u8 calls, byte i      *)
(* being i & 0xFF (buffer_tests.rs lines 7-10), places the cursor and      *)
(* takes slices with get_range (coverage.rs line 88).                      *)
(***************************************************************************)
Pattern == [i \in 1 .. BufSize |-> (i - 1) % 256]

\* for i in 0..512u16 { buffer.write_u8((i & 0xFF) as u8).unwrap(); }
FillBuffer ==
    /\ Fresh
    /\ LET w == write_bytes(Self, Pattern, 1)
       IN  /\ buffer' = w.b.buffer
           /\ position' = w.b.position
           /\ last' = [op |-> "fill", st |-> w.st]
    /\ src' = [kind |-> "filled"]

RangeStarts == {0, 1, 255, 500, BufSize - 2, BufSize - 1, BufSize}

RangeLens == {0, 1, 2, 5, 12, 257, BufSize - 1, BufSize}

RangeSeeks == {0, 12, BufSize - 1}

\* buffer.get_range(start, end)
GetRange(start, end) ==
    /\ Running
    /\ LET r == get_range(Self, start, end)
       IN  /\ buffer' = r.b.buffer
           /\ position' = r.b.position
           /\ last' = [op |-> "get_range", st |-> r.st, v |-> r.v,
                       start |-> start, len |-> end, pos0 |-> position]
    /\ UNCHANGED src

NextRange ==
    \/ New
    \/ FillBuffer
    \/ \E p \in RangeSeeks : Seek(p)
    \/ \E start \in RangeStarts, end \in RangeLens : GetRange(start, end)

SpecRange == Init /\ [][NextRange]_vars

\* C15: get_range(pos, len) succeeds exactly when pos + len <= 512, and
\* then returns the bytes pos .. pos + len - 1; it fails with
\* BufferOverflow exactly when pos + len > 512; it never moves the cursor.
\* A slice that ends at the last byte (pos + len = 512) succeeds.
C15_SliceBound ==
    last.op = "get_range" =>
        /\ (last.st = "Ok") <=> (last.start + last.len <= BufSize)
        /\ (last.st # "Ok") => last.st = "BufferOverflow"
        /\ (last.st = "Ok") =>
              last.v = [i \in 1 .. last.len |-> buffer[last.start + i - 1]]
        /\ position = last.pos0

(***************************************************************************)
(* Truncated messages.  A sender encodes a packet and the first size bytes *)
(* of it arrive: recv_from copies them to the front of a new buffer, whose *)
(* other bytes stay zero, and the caller decodes the buffer with           *)
(* DnsPacket::from_buffer (dns_parser/src/packet.rs lines 116-121).        *)
(***************************************************************************)
MessageShapes == {<<1, 0, 0, 0>>, <<1, 1, 0, 0>>, <<1, 1, 1, 1>>}

\* the bytes a sender puts on the wire for packet P: buf[0..cursor]
WireBytes(P) ==
    The({[i \in 1 .. w.b.position |-> w.b.buffer[i - 1]] : w \in {DnsPacket_write(P, new)}})

\* socket.recv_from(&mut res_buffer.buffer), size bytes of the message arriving
RecvMessage(P, bytes, size) ==
    /\ Fresh
    /\ buffer' = recv_from(SubSeq(bytes, 1, size)).buffer
    /\ position' = recv_from(SubSeq(bytes, 1, size)).position
    /\ src' = [kind |-> "message", val |-> P, len |-> Len(bytes), size |-> size]
    /\ last' = [op |-> "recv_from", st |-> "Ok"]

\* DnsPacket::from_buffer(&mut res_buffer)
FromBuffer ==
    /\ Running
    /\ src.kind = "message"
    /\ last.op = "recv_from"
    /\ LET r == DnsPacket_from_buffer(Self)
       IN  /\ buffer' = r.b.buffer
           /\ position' = r.b.position
           /\ last' = [op |-> "DnsPacket_from_buffer", st |-> r.st, v |-> r.v,
                       pos0 |-> position]
           /\ UNCHANGED src

NextMessage ==
    \/ New
    \/ \E sh \in MessageShapes :
          LET P == MkPacket("plain", sh, <<0, 0, 0, 0>>)
              bytes == WireBytes(P)
          IN  \E size \in 12 .. Len(bytes) : RecvMessage(P, bytes, size)
    \/ FromBuffer

SpecMessage == Init /\ [][NextMessage]_vars

DecodedMessage == src.kind = "message" /\ last.op = "DnsPacket_from_buffer"

\* C16: from_buffer on a received message that ends before all the
\* questions and records announced by the header counts (in the middle of
\* a record or between records) fails with BufferOverflow; it never returns
\* a packet read from bytes beyond the end of the received message.
C16_TruncatedMessage ==
    DecodedMessage =>
        /\ src.size < src.len => last.st = "BufferOverflow"
        /\ last.st = "Ok" => position <= src.size

(***************************************************************************)
(* TXT decoding.  As record_tests.rs lines 22-35 do, a caller writes a     *)
(* name, the TXT preamble and a declared rdlength, then character-strings  *)
(* given as <<length byte, bytes>> (the test writes the length byte 10 and *)
(* no bytes), seeks to 0 and calls DnsRecord::read.                        *)
(***************************************************************************)
MaxRdlength == 12

\* "txt.example"
NameTxt == <<116, 120, 116, 46>> \o SubSeq(NameExample, 1, 7)

TxtChunks == {<<0, <<>>>>, <<1, <<104>>>>, <<3, <<104, 105, 33>>>>,
              <<10, Letters(10)>>, <<10, <<>>>>}

\* lists of character-strings; only the last one may lack its bytes
TxtRdatas ==
    {chunks \in UNION {[1 .. n -> TxtChunks] : n \in 0 .. MaxList} :
        \A j \in 1 .. Len(chunks) - 1 : Len(chunks[j][2]) = chunks[j][1]}

RECURSIVE write_chunks(_, _, _)
write_chunks(b, chunks, i) ==
    IF i > Len(chunks) THEN Ok(b, <<>>)
    ELSE Then(write_u8(b, chunks[i][1]), LAMBDA w1 :
         Then(write_bytes(w1.b, chunks[i][2], 1), LAMBDA w2 :
         write_chunks(w2.b, chunks, i + 1)))

\* the writes of txt_record_errors_when_length_exceeds_rdata
TxtCraft(rdlength, chunks) ==
    /\ Fresh
    /\ LET w == Then(write_preamble(Self, NameTxt, <<"TXT">>, 1, <<0, 0>>), LAMBDA w1 :
                Then(write_u16(w1.b, rdlength), LAMBDA w2 :
                Then(write_chunks(w2.b, chunks, 1), LAMBDA w3 :
                Ok(w3.b, pos(w2.b)))))
       IN  /\ buffer' = w.b.buffer
           /\ position' = w.b.position
           /\ src' = [kind |-> "txt", rdlength |-> rdlength, chunks |-> chunks,
                      rdata_start |-> w.v, st |-> w.st]
           /\ last' = [op |-> "craft", st |-> w.st]

\* DnsRecord::read(&mut buffer)
TxtRead ==
    /\ Running
    /\ src.kind = "txt"
    /\ last.op = "seek"
    /\ LET r == DnsRecord_read(Self)
       IN  /\ buffer' = r.b.buffer
           /\ position' = r.b.position
           /\ last' = [op |-> "DnsRecord_read", st |-> r.st, v |-> r.v,
                       pos0 |-> position]
           /\ UNCHANGED src

NextTxt ==
    \/ New
    \/ \E rdlength \in 0 .. MaxRdlength, chunks \in TxtRdatas : TxtCraft(rdlength, chunks)
    \/ (src.kind = "txt" /\ last.op = "craft" /\ Seek(0))
    \/ TxtRead

SpecTxt == Init /\ [][NextTxt]_vars

\* rdata bytes taken by the first k character-strings: for each, its length
\* byte and the bytes the length byte declares
RECURSIVE TxtSum(_, _)
TxtSum(chunks, k) == IF k = 0 THEN 0 ELSE TxtSum(chunks, k - 1) + 1 + chunks[k][1]

\* some character-string starts within the declared rdlength and declares
\* more bytes than remain in it
TxtOverruns(chunks, rdlength) ==
    \E k \in 0 .. Len(chunks) - 1 :
        TxtSum(chunks, k) < rdlength /\ rdlength < TxtSum(chunks, k + 1)

TxtDecoded == src.kind = "txt" /\ last.op = "DnsRecord_read"

\* C17: when a TXT record with declared rdlength L is decoded, the rdata
\* bytes consumed (each length byte plus its string bytes) never exceed L;
\* the read fails with TxtOverrun exactly when a character-string's length
\* byte declares more bytes than remain within L; on success exactly L
\* rdata bytes have been consumed, and when L ends after the k-th string
\* the record holds the first k strings.
C17_TxtOverrun ==
    TxtDecoded =>
        /\ position - src.rdata_start <= src.rdlength
        /\ (last.st = "TxtOverrun") <=> TxtOverruns(src.chunks, src.rdlength)
        /\ last.st \in {"Ok", "TxtOverrun"}
        /\ last.st = "Ok" =>
              /\ position - src.rdata_start = src.rdlength
              /\ last.v.tag = "TXT"
              /\ \A k \in 0 .. Len(src.chunks) :
                    (/\ TxtSum(src.chunks, k) = src.rdlength
                     /\ \A j \in 1 .. k : Len(src.chunks[j][2]) = src.chunks[j][1])
                        => last.v.data = [j \in 1 .. k |-> src.chunks[j][2]]

\* the case of the test: rdlength 5, one length byte 10 and no string bytes
C17_Witness ==
    /\ TxtDecoded
    /\ src.rdlength = 5
    /\ src.chunks = <<<<10, <<>>>>>>
    /\ last.st = "TxtOverrun"
    /\ position = src.rdata_start + 1

(***************************************************************************)
(* Query type codes.  As types_tests.rs lines 9-14 do, a caller converts a *)
(* u16 with QueryType::from_num and the result back with to_num.           *)
(***************************************************************************)
U16 == 0 .. Pow2(16) - 1

\* QueryType::from_num(num)
FromNum(num) ==
    /\ last.op = "new"
    /\ last' = [op |-> "from_num", st |-> "Ok", n |-> num, v |-> from_num(num)]
    /\ UNCHANGED <<buffer, position, src>>

\* qtype.to_num() on the type from_num returned
ToNum ==
    /\ last.op = "from_num"
    /\ last' = [op |-> "to_num", st |-> "Ok", n |-> last.n, q |-> last.v,
                v |-> to_num(last.v)]
    /\ UNCHANGED <<buffer, position, src>>

NextTypes ==
    \/ New
    \/ (last.op = "new" /\ \E num \in U16 : FromNum(num))
    \/ ToNum

SpecTypes == Init /\ [][NextTypes]_vars

\* the variants of QueryType other than UNKNOWN, with their codes
NamedTypes == {QueryTypeCodes[i][1] : i \in 1 .. Len(QueryTypeCodes)}

NamedCodes == {QueryTypeCodes[i][2] : i \in 1 .. Len(QueryTypeCodes)}

\* C18: from_num is total on the 65536 u16 values: it yields a named type
\* or UNKNOWN(n) carrying n unchanged, the latter for every code outside
\* the named set; and to_num(from_num(n)) = n for every u16 n.
C18_TypeRoundTrip ==
    /\ last.op = "from_num" =>
          /\ \/ (Len(last.v) = 1 /\ last.v[1] \in NamedTypes)
             \/ last.v = <<"UNKNOWN", last.n>>
          /\ last.n \notin NamedCodes => last.v = <<"UNKNOWN", last.n>>
    /\ last.op = "to_num" => last.v = last.n

\* the case of the test: 9999 became UNKNOWN(9999) and went back to 9999
C18_Witness ==
    /\ last.op = "to_num"
    /\ last.n = 9999
    /\ last.q = <<"UNKNOWN", 9999>>
    /\ last.v = 9999

(***************************************************************************)
(* Result codes.  A caller converts a u8 with ResultCode::from_num         *)
(* (header_tests.rs line 47), or receives a header whose fourth byte holds *)
(* any rcode nibble and flag bits and decodes it with DnsHeader::read.     *)
(***************************************************************************)
U8 == 0 .. Pow2(8) - 1

\* ResultCode::from_num(num)
RcodeFromNum(num) ==
    /\ last' = [op |-> "ResultCode_from_num", st |-> "Ok", n |-> num,
                v |-> ResultCode_from_num(num)]
    /\ UNCHANGED <<buffer, position, src>>

\* a received header with id 1, opcode 0 and the given fourth byte
RecvRcode(byte) ==
    /\ buffer' = recv_from(<<0, 1, 0, byte>> \o Zeros(8)).buffer
    /\ position' = recv_from(<<0, 1, 0, byte>> \o Zeros(8)).position
    /\ src' = [kind |-> "rcode", byte |-> byte]
    /\ last' = [op |-> "recv_from", st |-> "Ok"]

\* let mut parsed = DnsHeader::new(); parsed.read(&mut buffer)
RcodeHeaderRead ==
    /\ src.kind = "rcode"
    /\ last.op = "recv_from"
    /\ LET r == DnsHeader_read(DnsHeader_new, Self)
       IN  /\ buffer' = r.b.buffer
           /\ position' = r.b.position
           /\ last' = [op |-> "DnsHeader_read", st |-> r.st, v |-> r.v, pos0 |-> position]
    /\ UNCHANGED src

NextRcode ==
    \/ New
    \/ (Fresh /\ \E num \in U8 : RcodeFromNum(num))
    \/ (Fresh /\ \E byte \in U8 : RecvRcode(byte))
    \/ RcodeHeaderRead

SpecRcode == Init /\ [][NextRcode]_vars

\* the code numbered n for n in 0..5, NOERROR for every other n
Permissive(n) == IF n \in 0 .. 5 THEN ResultCodes[n + 1] ELSE "NOERROR"

\* C19: ResultCode::from_num(n) returns the code numbered n for n in 0..5
\* and NOERROR for every other n; header decode never fails on the rcode
\* nibble, and a wire rcode of 6..15 is read as NOERROR.
C19_PermissiveRcode ==
    /\ last.op = "ResultCode_from_num" => last.v = Permissive(last.n)
    /\ (src.kind = "rcode" /\ last.op = "DnsHeader_read") =>
          /\ last.st = "Ok"
          /\ last.v.rescode = Permissive(src.byte % 16)
          /\ position = 12

\* a header with rcode nibble 15 and the ra bit was read as NOERROR
C19_Witness ==
    /\ src.kind = "rcode" /\ last.op = "DnsHeader_read"
    /\ src.byte = 143
    /\ last.v.rescode = "NOERROR" /\ last.v.recursion_available

(***************************************************************************)
(* Where the caller's cursor stands after a name: the labels are scanned   *)
(* from p without following any pointer; the scan stops after the 2 bytes  *)
(* of the first pointer or after the terminating zero byte.                *)
(***************************************************************************)
RECURSIVE CursorAfterName(_, _)
CursorAfterName(buf, p) ==
    IF p >= BufSize THEN BufSize
    ELSE IF BitAnd(buf[p], 192) = 192 THEN p + 2
    ELSE IF buf[p] = 0 THEN p + 1
    ELSE CursorAfterName(buf, p + 1 + buf[p])

\* the pointers read_qname follows from p, fuel bounding the walk
RECURSIVE PointersFollowed(_, _, _)
PointersFollowed(buf, p, fuel) ==
    IF p >= BufSize \/ fuel = 0 THEN 0
    ELSE IF BitAnd(buf[p], 192) = 192
         THEN IF p + 1 >= BufSize THEN 1
              ELSE 1 + PointersFollowed(buf, (buf[p] - 192) * 256 + buf[p + 1], fuel - 1)
    ELSE IF buf[p] = 0 THEN 0
    ELSE PointersFollowed(buf, p + 1 + buf[p], fuel)

\* C20: after a successful read_qname the cursor is the position of the
\* first pointer + 2 if any pointer was followed (later pointers leave it
\* there), and the position of the terminating zero byte + 1 otherwise.
C20_QnameCursor ==
    (last.op = "read_qname" /\ last.st = "Ok") =>
        position = CursorAfterName(buffer, last.pos0)

\* a name read from offset 0 through three chained pointers, a label and a
\* fourth pointer: the cursor stands after the first pointer
C20_Witness ==
    /\ last.op = "read_qname" /\ last.st = "Ok"
    /\ src.kind = "datagram" /\ src.k = 3 /\ src.e = "lptr"
    /\ last.pos0 = 0
    /\ PointersFollowed(buffer, 0, max_jumps + 1) = 4
    /\ last.v = <<97, 46, 98>>
    /\ position = 2

(***************************************************************************)
(* read_qname one loop iteration at a time.  While the call runs, last     *)
(* holds the locals of read_qname (pos, jumped, jumps_performed,           *)
(* delimiter, out_str) with st = "Loop"; the iteration that leaves the     *)
(* loop sets st to the call's result.  A call that panics never returns:   *)
(* st = "Panic" is final.                                                  *)
(***************************************************************************)
\* let mut pos = self.pos(); let mut jumped = false; let mut jumps_performed = 0;
QnameStart ==
    /\ last.op \in {"seek", "recv_from"}
    /\ last' = [op |-> "read_qname_loop", st |-> "Loop", pos0 |-> position,
                p |-> pos(Self), jumped |-> FALSE, jumps_performed |-> 0,
                delimiter |-> <<>>, v |-> <<>>, was |-> "start"]
    /\ UNCHANGED <<buffer, position, src>>

\* the loop ends: the call returns st (or panics) with the cursor at cur
QnameEnd(st, cur, out) ==
    /\ last' = [last EXCEPT !.st = st, !.v = out, !.was = "end"]
    /\ position' = cur
    /\ UNCHANGED <<buffer, src>>

\* one iteration of the loop, and the seek after it when the loop breaks
QnameStep ==
    /\ last.op = "read_qname_loop"
    /\ last.st = "Loop"
    /\ IF last.jumps_performed > max_jumps
       THEN QnameEnd("NameJumpLimit", position, last.v)
       ELSE LET g == get(Self, last.p)
                length_byte == g.v
                b1 == IF ~last.jumped THEN seek(Self, last.p + 2) ELSE Self
                g2 == get(b1, last.p + 1)
                s == get_range(Self, last.p + 1, length_byte)
            IN  IF g.st # "Ok" THEN QnameEnd(g.st, position, last.v)
                ELSE IF BitAnd(length_byte, 192) = 192
                THEN IF g2.st # "Ok" THEN QnameEnd(g2.st, b1.position, last.v)
                     ELSE /\ last' = [last EXCEPT
                                 !.p = BitOr(Shl(BitXor(length_byte, 192), 8, 16), g2.v),
                                 !.jumped = TRUE,
                                 !.jumps_performed = last.jumps_performed + 1,
                                 !.was = "pointer"]
                          /\ position' = b1.position
                          /\ UNCHANGED <<buffer, src>>
                ELSE IF length_byte = 0
                THEN QnameEnd("Ok", IF ~last.jumped THEN last.p + 1 ELSE position, last.v)
                ELSE IF s.st # "Ok"
                THEN QnameEnd(s.st, position, last.v \o last.delimiter)
                ELSE /\ last' = [last EXCEPT
                            !.p = last.p + 1 + length_byte,
                            !.delimiter = Dot,
                            !.v = last.v \o last.delimiter
                                      \o to_lowercase(from_utf8_lossy(s.v)),
                            !.was = "label"]
                     /\ UNCHANGED <<buffer, position, src>>

StepTails == {"none", "end"}

StepSeeks == {0, 2, 2 * MaxChain, EndPos, BufSize - 1, BufSize}

NextQnameSteps ==
    \/ (last.st # "Loop" /\ New)
    \/ (last.op = "recv_from" /\ \E p \in StepSeeks : Seek(p))
    \/ Fresh /\ \E k \in 0 .. MaxChain, e \in Endings, t \in StepTails : RecvName(k, e, t)
    \/ QnameStart
    \/ QnameStep

\* a call that has started keeps running: the loop is not interrupted
SpecQnameSteps == Init /\ [][NextQnameSteps]_vars /\ WF_vars(QnameStep)

InLoop == last.op = "read_qname_loop" /\ last.st = "Loop"

Returned == last.op = "read_qname_loop" /\ last.st \in {"Ok", "BufferOverflow", "NameJumpLimit"}

\* C21: from every buffer content and starting cursor read_qname
\* terminates, accepting on a zero length byte or returning an error (it
\* does not end any other way); it follows at most 6 pointers; and a step
\* over a label strictly increases the walker position.
C21_QnameTerminates ==
    /\ [](last.op = "read_qname_loop" =>
              /\ last.st \in {"Loop", "Ok", "BufferOverflow", "NameJumpLimit"}
              /\ last.jumps_performed <= max_jumps + 1)
    /\ [][(last'.op = "read_qname_loop" /\ last'.was = "label") => last'.p > last.p]_vars
    /\ [](InLoop => <>Returned)

(***************************************************************************)
(* Peeks.  A caller fills the buffer or leaves it new, places the cursor   *)
(* with seek (possibly past the end: seek does not validate) and calls     *)
(* get(pos) (buffer_tests.rs lines 19-21).                                 *)
(***************************************************************************)
PeekSeeks == {0, 11, BufSize - 2, BufSize - 1, BufSize, BufSize + 1}

PeekPositions == {0, 1, 10, 255, 256, BufSize - 2, BufSize - 1, BufSize, BufSize + 1,
                  2 * BufSize}

\* buffer.get(p)
Get(p) ==
    /\ Running
    /\ LET r == get(Self, p)
       IN  /\ buffer' = r.b.buffer
           /\ position' = r.b.position
           /\ last' = [op |-> "get", st |-> r.st, v |-> r.v, p |-> p, pos0 |-> position]
    /\ UNCHANGED src

NextPeek ==
    \/ New
    \/ FillBuffer
    \/ \E p \in PeekSeeks : Seek(p)
    \/ \E p \in PeekPositions : Get(p)

SpecPeek == Init /\ [][NextPeek]_vars

\* C22: get(pos) depends only on pos: it returns the byte at pos whenever
\* pos < 512, whatever the cursor (also a cursor >= 512), fails with
\* BufferOverflow whenever pos >= 512, and never moves the cursor.
C22_PeekBound ==
    last.op = "get" =>
        /\ last.p < BufSize => (last.st = "Ok" /\ last.v = buffer[last.p])
        /\ last.p >= BufSize => last.st = "BufferOverflow"
        /\ position = last.pos0

(***************************************************************************)
(* Patches.  A caller fills the buffer or leaves it new, places the cursor *)
(* and overwrites two bytes with set_u16(pos, val), as DnsRecord::write    *)
(* does to back-patch rdlength.  last keeps the bytes before the call.     *)
(***************************************************************************)
PatchSeeks == {0, 12, BufSize}

PatchPositions == {0, 5, BufSize - 2, BufSize - 1, BufSize, BufSize + 88}

PatchValues == {0, 255, 4660, Pow2(16) - 1}

\* buffer.set_u16(p, val)
SetU16(p, val) ==
    /\ Running
    /\ last.op \in {"new", "fill", "seek"}
    /\ LET r == set_u16(Self, p, val)
       IN  /\ buffer' = r.b.buffer
           /\ position' = r.b.position
           /\ last' = [op |-> "set_u16", st |-> r.st, p |-> p, val |-> val,
                       pos0 |-> position, pre |-> buffer]
    /\ UNCHANGED src

NextPatch ==
    \/ New
    \/ FillBuffer
    \/ (last.op \in {"new", "fill"} /\ \E p \in PatchSeeks : Seek(p))
    \/ \E p \in PatchPositions, val \in PatchValues : SetU16(p, val)

SpecPatch == Init /\ [][NextPatch]_vars

\* C23: set_u16(pos, val) overwrites exactly bytes pos and pos + 1 with val
\* in big-endian order and leaves the cursor and every other byte
\* unchanged; when pos + 2 > 512 it fails with BufferOverflow and changes
\* nothing.
C23_PatchFrame ==
    last.op = "set_u16" =>
        /\ position = last.pos0
        /\ last.p + 2 <= BufSize =>
              /\ last.st = "Ok"
              /\ buffer = [i \in 0 .. BufSize - 1 |->
                              IF i = last.p THEN last.val \div 256
                              ELSE IF i = last.p + 1 THEN last.val % 256
                              ELSE last.pre[i]]
        /\ last.p + 2 > BufSize =>
              /\ last.st = "BufferOverflow"
              /\ buffer = last.pre

(***************************************************************************)
(* The header layout stated bit by bit, without the shift and or operators *)
(* of the model of the code.                                               *)
(***************************************************************************)
\* bit j of the number x, as 0 or 1
BitOf(x, j) == (x \div Pow2(j)) % 2

B01(flag) == IF flag THEN 1 ELSE 0

Max2(a, b) == IF a >= b THEN a ELSE b

\* rd | tc<<1 | aa<<2 | opcode<<3 | qr<<7 in a byte: bit j of opcode<<3 is
\* bit j - 3 of opcode, and what is shifted past bit 7 is lost
LayoutA(h) ==
    B01(h.recursion_desired) + 2 * B01(h.truncated_message)
        + 4 * B01(h.authoritative_answer)
        + 8 * BitOf(h.opcode, 0) + 16 * BitOf(h.opcode, 1)
        + 32 * BitOf(h.opcode, 2) + 64 * BitOf(h.opcode, 3)
        + 128 * Max2(B01(h.response), BitOf(h.opcode, 4))

\* rcode | cd<<4 | ad<<5 | z<<6 | ra<<7
LayoutB(h) ==
    ResultCode_as_u8(h.rescode) + 16 * B01(h.checking_disabled)
        + 32 * B01(h.authed_data) + 64 * B01(h.z) + 128 * B01(h.recursion_available)

Hi(x) == x \div 256

Lo(x) == x % 256

Layout(h) ==
    <<Hi(h.id), Lo(h.id), LayoutA(h), LayoutB(h),
      Hi(h.questions), Lo(h.questions), Hi(h.answers), Lo(h.answers),
      Hi(h.authoritative_entries), Lo(h.authoritative_entries),
      Hi(h.resource_entries), Lo(h.resource_entries)>>

\* C24: DnsHeader::write emits id (big-endian), flag byte A = rd | tc<<1 |
\* aa<<2 | opcode<<3 | qr<<7, flag byte B = rcode | cd<<4 | ad<<5 | z<<6 |
\* ra<<7, then questions, answers, authorities, resources as big-endian
\* u16; DnsHeader::read takes every field from the same bit positions
\* (opcode from bits 3-6 of A, rcode from the low nibble of B, z from bit 6
\* of B).
C24_HeaderLayout ==
    /\ (src.kind = "header" /\ last.op = "DnsHeader_write") =>
          /\ src.st = "Ok"
          /\ Bytes(src.start, 12) = Layout(src.val)
    /\ (last.op = "DnsHeader_read" /\ last.st = "Ok") =>
          LET at == Bytes(last.pos0, 12)
          IN  /\ last.v.id = 256 * at[1] + at[2]
              /\ last.v.recursion_desired = (BitOf(at[3], 0) = 1)
              /\ last.v.truncated_message = (BitOf(at[3], 1) = 1)
              /\ last.v.authoritative_answer = (BitOf(at[3], 2) = 1)
              /\ last.v.opcode = (at[3] \div 8) % 16
              /\ last.v.response = (BitOf(at[3], 7) = 1)
              /\ last.v.rescode = Permissive(at[4] % 16)
              /\ last.v.checking_disabled = (BitOf(at[4], 4) = 1)
              /\ last.v.authed_data = (BitOf(at[4], 5) = 1)
              /\ last.v.z = (BitOf(at[4], 6) = 1)
              /\ last.v.recursion_available = (BitOf(at[4], 7) = 1)
              /\ last.v.questions = 256 * at[5] + at[6]
              /\ last.v.answers = 256 * at[7] + at[8]
              /\ last.v.authoritative_entries = 256 * at[9] + at[10]
              /\ last.v.resource_entries = 256 * at[11] + at[12]

\* a header with opcode 10 and only z set was written as 00 FF 50 40 ..
\* and read back with opcode 10 and z
C24_Witness ==
    /\ HeaderDecodedBack
    /\ src.val.opcode = 10 /\ src.val.z /\ ~src.val.authed_data
    /\ Bytes(0, 4) = <<0, 255, 80, 64 + ResultCode_as_u8(src.val.rescode)>>
    /\ last.v.opcode = 10 /\ last.v.z /\ ~last.v.authed_data

\* C28: DnsHeader::write places only the low 4 bits of opcode into bits 3-6
\* of flag byte A: for every opcode in 0..255 bit 7 of the emitted byte
\* equals header.response and bits 0-2 equal rd, tc and aa, so the decoder
\* reads back the qr flag that was written.
C28_OpcodeContained ==
    /\ (src.kind = "header" /\ last.op = "DnsHeader_write" /\ src.st = "Ok") =>
          LET a == buffer[src.start + 2]
          IN  /\ BitOf(a, 7) = B01(src.val.response)
              /\ (a \div 8) % 16 = src.val.opcode % 16
              /\ BitOf(a, 0) = B01(src.val.recursion_desired)
              /\ BitOf(a, 1) = B01(src.val.truncated_message)
              /\ BitOf(a, 2) = B01(src.val.authoritative_answer)
    /\ (HeaderDecodedBack /\ last.st = "Ok") =>
          /\ last.v.response = src.val.response
          /\ last.v.opcode = src.val.opcode % 16

DecodedPacket == src.kind = "packet" /\ last.op = "DnsPacket_from_buffer" /\ last.pos0 = 0

\* the packet written is one of the "plain" palette: no root name, no
\* UNKNOWN(1), no long TXT
PlainPacket ==
    \E sh \in [1 .. 4 -> 0 .. MaxList], cn \in CountChoices :
        src.val = MkPacket("plain", sh, cn)

\* the outcome of reading nq questions and then nr records one after the
\* other from b, stopping at the first one that does not decode
RECURSIVE ElementsFrom(_, _, _)
ElementsFrom(b, nq, nr) ==
    IF nq + nr = 0 THEN [st |-> "Ok", position |-> b.position]
    ELSE The({IF r.st = "Ok"
              THEN ElementsFrom(r.b, IF nq > 0 THEN nq - 1 ELSE 0,
                                IF nq > 0 THEN nr ELSE nr - 1)
              ELSE [st |-> r.st, position |-> r.b.position] :
              r \in {IF nq > 0
                     THEN DnsQuestion_read(DnsQuestion_new(<<>>, <<"UNKNOWN", 0>>), b)
                     ELSE DnsRecord_read(b)}})

WireCount(i) == 256 * buffer[i] + buffer[i + 1]

\* C25: whenever from_buffer succeeds, the packet returned has as many
\* questions, answers, authorities and resources as the four counts of its
\* header, which are the counts on the wire; the elements were read in the
\* order questions, answers, authorities, resources (a packet written with
\* different lists in the four sections comes back with each list in its
\* section and the cursor at the end of the last element); a call that
\* does not succeed ends as the first element that does not decode ends.
C25_SectionSizes ==
    DecodedPacket =>
        /\ last.st = "Ok" =>
              /\ Len(last.v.questions) = last.v.header.questions
              /\ Len(last.v.answers) = last.v.header.answers
              /\ Len(last.v.authorities) = last.v.header.authoritative_entries
              /\ Len(last.v.resources) = last.v.header.resource_entries
              /\ last.v.header.questions = 256 * buffer[4] + buffer[5]
              /\ last.v.header.answers = 256 * buffer[6] + buffer[7]
              /\ last.v.header.authoritative_entries = 256 * buffer[8] + buffer[9]
              /\ last.v.header.resource_entries = 256 * buffer[10] + buffer[11]
        /\ (src.st = "Ok" /\ PlainPacket) =>
              /\ last.st = "Ok"
              /\ last.v.questions = LoweredAll(src.val.questions)
              /\ last.v.answers = LoweredAll(src.val.answers)
              /\ last.v.authorities = LoweredAll(src.val.authorities)
              /\ last.v.resources = LoweredAll(src.val.resources)
              /\ position = src.end
        /\ last.st = ElementsFrom([buffer |-> buffer, position |-> 12], WireCount(4),
                                  WireCount(6) + WireCount(8) + WireCount(10)).st

\* a packet with 2 questions, 1 answer, 2 authorities and no resource was
\* decoded
C25_Witness ==
    /\ DecodedPacket /\ last.st = "Ok" /\ PlainPacket
    /\ Len(last.v.questions) = 2 /\ Len(last.v.answers) = 1
    /\ Len(last.v.authorities) = 2 /\ Len(last.v.resources) = 0
    /\ last.v.authorities[1].tag = "MX"

(***************************************************************************)
(* Records as they arrive: a one-label owner name, a type, class, ttl, a   *)
(* declared rdlength and rdata bytes that need not match it.               *)
(***************************************************************************)
FrameTypes ==
    {<<"A">>, <<"NS">>, <<"CNAME">>, <<"SOA">>, <<"PTR">>, <<"MX">>, <<"TXT">>, <<"AAAA">>,
     <<"UNKNOWN", 99>>}

\* an address (also a pointer to offset 0 when read as a name), the name
\* "b", a preference and a pointer, two character-strings, an IPv6 address
FrameRdatas ==
    {<<>>, <<192, 0, 2, 1>>, <<1, 98, 0>>, <<0, 10, 192, 0>>, <<2, 104, 105, 1, 97>>,
     <<32, 1, 13, 184, 0, 0, 0, 0, 0, 0, 0, 0, 0, 0, 0, 1>>}

FrameLens == (0 .. MaxRdlength) \cup {16}

\* the bytes of one record put into a new buffer
FrameCraft(qtype, rdlength, rdata) ==
    /\ Fresh
    /\ LET w == Then(write_preamble(Self, NameA, qtype, 1, <<0, 300>>), LAMBDA w1 :
                Then(write_u16(w1.b, rdlength), LAMBDA w2 :
                Then(write_bytes(w2.b, rdata, 1), LAMBDA w3 :
                Ok(w3.b, pos(w2.b)))))
       IN  /\ buffer' = w.b.buffer
           /\ position' = w.b.position
           /\ src' = [kind |-> "frame", qtype |-> qtype, rdlength |-> rdlength,
                      rdata |-> rdata, rdata_start |-> w.v, st |-> w.st]
           /\ last' = [op |-> "craft", st |-> w.st]

\* DnsRecord::read(&mut buffer)
FrameRead ==
    /\ Running
    /\ src.kind = "frame"
    /\ last.op = "seek"
    /\ LET r == DnsRecord_read(Self)
       IN  /\ buffer' = r.b.buffer
           /\ position' = r.b.position
           /\ last' = [op |-> "DnsRecord_read", st |-> r.st, v |-> r.v,
                       pos0 |-> position]
           /\ UNCHANGED src

NextFrame ==
    \/ New
    \/ (Fresh /\ \E qtype \in FrameTypes, rdlength \in FrameLens, rdata \in FrameRdatas :
                    FrameCraft(qtype, rdlength, rdata))
    \/ (src.kind = "frame" /\ last.op = "craft" /\ Seek(0))
    \/ FrameRead

SpecFrame == Init /\ [][NextFrame]_vars

FrameDecoded == src.kind = "frame" /\ last.op = "DnsRecord_read" /\ last.st = "Ok"

\* C26: whenever DnsRecord::read succeeds on a record of any type with
\* declared rdlength L, the cursor is exactly L bytes past the end of the
\* rdlength field.
C26_RecordFraming ==
    FrameDecoded => position = src.rdata_start + src.rdlength

\* C27: every label that read_qname appends comes from a length byte in
\* 1..63 (never from one in 0x40..0xBF), and every name that read_qname
\* accepts is written by write_qname without a LabelTooLong error.
C27_LabelLength ==
    /\ [][(last'.op = "read_qname_loop" /\ last'.was = "label")
              => buffer[last.p] \in 1 .. MaxLabel]_vars
    /\ []((last.op = "read_qname_loop" /\ last.st = "Ok")
              => write_qname(new, last.v).st # "LabelTooLong")

\* the character-strings data[i..] lie in the buffer from offset at on, each
\* as a length byte equal to its number of bytes and then its bytes, and end
\* at offset end
RECURSIVE TxtFramed(_, _, _, _)
TxtFramed(data, i, at, end) ==
    IF i > Len(data) THEN at = end
    ELSE /\ at + Len(data[i]) < end
         /\ buffer[at] = Len(data[i])
         /\ \A j \in 1 .. Len(data[i]) : buffer[at + j] = data[i][j]
         /\ TxtFramed(data, i + 1, at + 1 + Len(data[i]), end)

WroteTxt ==
    /\ src.kind = "record" /\ src.val.tag = "TXT"
    /\ last.op = "DnsRecord_write" /\ last.st = "Ok"

\* C29: in every TXT record that DnsRecord::write encodes successfully each
\* character-string is at most 255 bytes long and its length byte equals the
\* number of string bytes emitted right after it (the rdata starts after
\* the owner name and the ten bytes of type, class, ttl and rdlength).
C29_TxtLengthPrefix ==
    WroteTxt =>
        /\ \A i \in 1 .. Len(src.val.data) : Len(src.val.data[i]) <= 255
        /\ TxtFramed(src.val.data, 1, src.start + Len(src.val.domain) + 12, src.end)

(***************************************************************************)
(* QueryType values converted to their code and back.                      *)
(***************************************************************************)
QueryTypes == {<<t>> : t \in NamedTypes} \cup {<<"UNKNOWN", x>> : x \in U16}

\* q.to_num()
TypeToNum(q) ==
    /\ Fresh
    /\ src' = [kind |-> "qtype", q |-> q]
    /\ last' = [op |-> "to_num", st |-> "Ok", v |-> to_num(q)]
    /\ UNCHANGED <<buffer, position>>

\* QueryType::from_num(num) on the code to_num returned
TypeFromNum ==
    /\ src.kind = "qtype"
    /\ last.op = "to_num"
    /\ last' = [op |-> "from_num", st |-> "Ok", n |-> last.v, v |-> from_num(last.v)]
    /\ UNCHANGED <<buffer, position, src>>

NextTypeValues ==
    \/ New
    \/ (Fresh /\ \E q \in QueryTypes : TypeToNum(q))
    \/ TypeFromNum

SpecTypeValues == Init /\ [][NextTypeValues]_vars

\* C30: for every QueryType value q, named or UNKNOWN(x) with any u16 x,
\* from_num(to_num(q)) = q.
C30_TypeValueRoundTrip ==
    (src.kind = "qtype" /\ last.op = "from_num") => last.v = src.q

====
